---- MODULE Spec2Model ----
(***************************************************************************)
(* Model of the tracer of artela-evm (vm/tracer.go): the call tree         *)
(* (CallTree, Call) and the state-change forest (StateChanges, StorageKey, *)
(* StorageChanges), of the instructions of vm/constants.go that journal,   *)
(* jump, call, create and write the state, and of the monitor of           *)
(* vm/monitor.go (StateChanges, CallStacks).                               *)
(*                                                                         *)
(* Go pointers are positions in a heap sequence (calls, keys); Nil is the  *)
(* nil pointer.  Go maps are functions whose DOMAIN is the set of keys     *)
(* present.  Nested maps map[a]map[b]... whose inner maps are created only *)
(* on the way to an insertion are functions over tuples <<a, b, ...>>.     *)
(***************************************************************************)
EXTENDS Integers, Sequences, FiniteSets, TLC

VARIABLES
    calls,      \* heap of Call structs; a *Call is a position in this sequence
    root,       \* CallTree.root
    current,    \* CallTree.current
    count,      \* CallTree.count
    lookup,     \* CallTree.lookup
    keys,       \* heap of StorageKey structs; a *StorageKey is a position
    roots,      \* StateChanges.roots
    index,      \* StateChanges.index
    raw,        \* StateChanges.raw
    balances,   \* StateDB: the balance of each account
    storage,    \* StateDB: the word stored at <<account, slot>>
    stack,      \* the operand stack of the running frame, top last
    readOnly,   \* EVMInterpreter.readOnly
    memory,     \* the memory of the running frame, a sequence of bytes
    pc,         \* the program counter of the running frame
    gas,        \* Contract.Gas of the running frame
    returnData, \* EVMInterpreter.returnData
    logs,       \* StateDB: the logs added
    suicided,   \* StateDB: the accounts marked as suicided
    invoked,    \* history: the calls and creations handed to the EVM
    abort,      \* EVM.abort
    mChanges,   \* Monitor: StateChanges.changes, keyed by <<account, variable, index>>
    mSlotIndex, \* Monitor: StateChanges.slotIndex, keyed by <<account, slot>>
    itxs,       \* Monitor: heap of InnerTransaction structs
    mHead,      \* Monitor: CallStacks.head
    mCurrent,   \* Monitor: CallStacks.current
    mCount,     \* Monitor: CallStacks.count
    registered, \* history: <<parent node, label>> of every successful saveKey
    callOps,    \* history: the add/exit operations applied, with the call each acted on
    journal,    \* history: the JournalChanges events, in execution order
    last        \* history: the last operation, its arguments and its result

vars == <<calls, root, current, count, lookup, keys, roots, index, raw, balances,
          storage, stack, readOnly, memory, pc, gas, returnData, logs, suicided, invoked,
          abort, mChanges, mSlotIndex, itxs, mHead, mCurrent, mCount,
          registered, callOps, journal, last>>

treeVars == <<calls, root, current, count, lookup>>
frameVars == <<memory, pc, gas, returnData, logs, suicided, invoked>>
monitorVars == <<mChanges, mSlotIndex, itxs, mHead, mCurrent, mCount>>
outsideVars == <<abort, monitorVars>>
evmVars == <<storage, stack, readOnly, frameVars, outsideVars>>
stateVars == <<keys, roots, index, raw, balances, evmVars, registered>>

Nil == 0

EmptyMap == [x \in {} |-> Nil]

\* m[k] = v added to (or replaced in) the map m
MapPut(m, k, v) == [x \in (DOMAIN m) \cup {k} |-> IF x = k THEN v ELSE m[x]]

\* m[k] of a Go map of pointers: the zero value nil when k is absent
MapGet(m, k) == IF k \in DOMAIN m THEN m[k] ELSE Nil

RECURSIVE Concat(_)
\* the concatenation of a sequence of sequences
Concat(ss) == IF ss = <<>> THEN <<>> ELSE Head(ss) \o Concat(Tail(ss))

(***************************************************************************)
(* Bounds and input sets                                                   *)
(***************************************************************************)
MaxCalls == 4       \* calls entered in the call-tree specification
MaxCallOps == 8     \* add/exit operations in the call-tree specification

\* From, To, Data, Value and Gas of a call, kept as one opaque payload
CallData == {"A", "B"}

\* (leftoverGas, ret, err) of an exit; err "" is the nil error
ExitArgs == { [gas |-> 7, ret |-> <<1>>, err |-> ""],
              [gas |-> 0, ret |-> <<>>,  err |-> "execution reverted"] }

MaxKeys == 3        \* StorageKey nodes (roots included) in the key specification
MaxJournal == 3     \* journaled values in the journal specification
JMaxCalls == 2      \* calls entered in the journal specification
JMaxCallOps == 3    \* add/exit operations in the journal specification

VMaxKeys == 4       \* StorageKey nodes in the state-variable specification
VMaxJournal == 2    \* journaled values in the state-variable specification
OMaxJournal == 2    \* journaled values in the all-operations specification
OMaxCallOps == 3    \* add/exit operations in the all-operations specification
TMaxTransfers == 2  \* transfers in the transfer specification
TMaxCallOps == 2    \* add/exit operations in the transfer specification
KMaxCalls == 1      \* calls entered in the journal instruction specification
EMaxPc == 3         \* PUSH1 instructions executed in the instruction specification

\* the operands on the stack of a frame of the jump specification
PMaxStack == 4
MMaxStates == 2     \* states saved in the monitor specification
MMaxItxs == 3       \* inner transactions pushed in the monitor specification
EMaxStack == 2      \* stack words in the storage-opcode specification
EMaxCalls == 1      \* calls entered in the storage-opcode specification
EMaxCallOps == 2    \* add/exit operations in the storage-opcode specification
EMaxRaw == 1        \* raw log entries in the storage-opcode specification

Accounts == {"a1", "a2"}
Slots == {1, 2}
TypeIds == {"T1", "T2"}
Labels == {"a", "b"}
Vals == {<<1>>, <<2>>}      \* journaled value bytes
Amounts == {0, 1}           \* amounts transferred

Words == {1, 2}             \* 256-bit words on the stack
NilSlot == -1       \* the nil *uint256.Int passed as parent
NilOff == [nil |-> TRUE]    \* the nil *uint256.Int passed as offset

\* the uint256 of value hi * 2^64 + lo
U256(hi, lo) == [hi |-> hi, lo |-> lo]

\* offsets: nil, 32, and 2^64 + 5 whose low 64 bits are a valid offset
Offsets == {NilOff, U256(0, 32), U256(1, 5)}
StartGas == 100     \* the gas of the frame when it starts
ZeroHash == "00"    \* common.Hash{}
NoLabel == ""       \* the nil data of a root key

\* NewMonitor: no state change cached, no inner transaction pushed
NewMonitor ==
    /\ mChanges = EmptyMap
    /\ mSlotIndex = EmptyMap
    /\ itxs = <<>>
    /\ mHead = Nil
    /\ mCurrent = Nil
    /\ mCount = 0

(***************************************************************************)
(* Call, CallTree                                                          *)
(***************************************************************************)

\* the struct literal of CallTree.add with Index one too large
NewCallOffByOne(d, cur, cnt) ==
    [Data |-> d, Index |-> cnt + 1, Parent |-> cur, Children |-> <<>>,
     Ret |-> <<>>, RemainingGas |-> 0, Err |-> ""]

\* the &Call{...} literal of CallTree.add; unset fields take their zero value
NewCall(d, cur, cnt) ==
    [Data |-> d, Index |-> cnt, Parent |-> cur, Children |-> <<>>,
     Ret |-> <<>>, RemainingGas |-> 0, Err |-> ""]

\* the child put in front of its siblings
LinkChildFront(cs, cur, new) ==
    IF cur # Nil THEN [cs EXCEPT ![cur].Children = <<new>> \o @] ELSE cs

\* c.current.Children = append(c.current.Children, newCall), when current is not nil
LinkChild(cs, cur, new) ==
    IF cur # Nil THEN [cs EXCEPT ![cur].Children = Append(@, new)] ELSE cs

\* the cursor left on the exited call
ExitCursorStay(cs, cur) == cur

\* c.current = c.current.Parent
ExitCursor(cs, cur) == cs[cur].Parent

\* CallTree.add
Add(d) ==
    LET new == Len(calls) + 1
        newCall == NewCall(d, current, count)
    IN  /\ root' = IF root = Nil THEN new ELSE root
        /\ calls' = Append(LinkChild(calls, current, new), newCall)
        /\ lookup' = MapPut(lookup, count, new)
        /\ current' = new
        /\ count' = count + 1
        /\ callOps' = Append(callOps, [op |-> "add", call |-> new])
        /\ last' = [op |-> "add", args |-> d, err |-> ""]
        /\ UNCHANGED <<stateVars, journal>>

\* CallTree.exit
Exit(e) ==
    /\ IF current = Nil
       THEN UNCHANGED treeVars
       ELSE /\ calls' = [calls EXCEPT ![current].RemainingGas = e.gas,
                                      ![current].Ret = e.ret,
                                      ![current].Err = e.err]
            /\ current' = ExitCursor(calls, current)
            /\ UNCHANGED <<root, count, lookup>>
    /\ callOps' = Append(callOps, [op |-> "exit", call |-> current])
    /\ last' = [op |-> "exit", args |-> e, err |-> ""]
    /\ UNCHANGED <<stateVars, journal>>

\* CallTree.Root
Root == root

\* CallTree.Current
Current == current

\* CallTree.FindCall
FindCall(i) == MapGet(lookup, i)

\* the node itself returned instead of its parent
ParentOfSelf(i) ==
    LET node == MapGet(lookup, i)
    IN  IF node = Nil THEN Nil ELSE node

\* CallTree.ParentOf
ParentOf(i) ==
    LET node == MapGet(lookup, i)
    IN  IF node = Nil THEN Nil ELSE calls[node].Parent

\* CallTree.ChildrenOf; the nil slice is the empty sequence
ChildrenOf(i) ==
    LET node == MapGet(lookup, i)
    IN  IF node = Nil THEN <<>> ELSE calls[node].Children

\* Call.ChildrenIndices
ChildrenIndices(c) == [i \in DOMAIN calls[c].Children |-> calls[calls[c].Children[i]].Index]

RECURSIVE PreOrder(_)
\* the calls met by a pre-order walk from call p over Children
PreOrder(p) ==
    <<p>> \o Concat([i \in DOMAIN calls[p].Children |-> PreOrder(calls[p].Children[i])])

(***************************************************************************)
(* History read from callOps                                               *)
(***************************************************************************)

\* positions in callOps of the add operations, in order
AddPositions == SelectSeq([i \in DOMAIN callOps |-> i], LAMBDA i : callOps[i].op = "add")

\* the calls entered, in entry order: Entered[k] is the k-th call entered
Entered == [k \in DOMAIN AddPositions |-> callOps[AddPositions[k]].call]

\* position in callOps of the add that entered call p
EnterPos(p) == CHOOSE i \in DOMAIN callOps : callOps[i].op = "add" /\ callOps[i].call = p

\* positions in callOps of the exits that acted on a call
ExitPositions == {i \in DOMAIN callOps : callOps[i].op = "exit" /\ callOps[i].call # Nil}

\* the calls entered and not yet exited after the first n operations
OpenAfter(n) ==
    {callOps[i].call : i \in {j \in 1..n : callOps[j].op = "add"}}
        \ {callOps[i].call : i \in {j \in ExitPositions : j <= n}}

\* the most recently entered call still open after the first n operations
InnermostAfter(n) ==
    IF OpenAfter(n) = {} THEN Nil
    ELSE CHOOSE p \in OpenAfter(n) : \A q \in OpenAfter(n) : EnterPos(q) <= EnterPos(p)

\* the kinds of the operations applied
OpKinds == [i \in DOMAIN callOps |-> callOps[i].op]

IsAdd == Len(callOps') = Len(callOps) + 1 /\ callOps'[Len(callOps')].op = "add"

IsExit == Len(callOps') = Len(callOps) + 1 /\ callOps'[Len(callOps')].op = "exit"

(***************************************************************************)
(* StorageChanges, StorageKey                                              *)
(***************************************************************************)
RootNode == 0
BranchNode == 1
DataNode == 2

\* the nil *StorageChanges
NilChanges == [isNil |-> TRUE, changes |-> EmptyMap]

\* newStorageChange
newStorageChange == [isNil |-> FALSE, changes |-> EmptyMap]

\* append without the check for an identical last value
appendAlways(c, callIdx, newVal) ==
    LET ok == callIdx \in DOMAIN c.changes
        changes == IF ok THEN c.changes[callIdx] ELSE <<>>
    IN  [c EXCEPT !.changes = MapPut(@, callIdx, Append(changes, newVal))]

\* append comparing with the last value recorded under any call index
appendAnyIndex(c, callIdx, newVal) ==
    LET ok == callIdx \in DOMAIN c.changes
        changes == IF ok THEN c.changes[callIdx] ELSE <<>>
    IN  IF \E i \in DOMAIN c.changes :
              Len(c.changes[i]) > 0 /\ c.changes[i][Len(c.changes[i])] = newVal
        THEN c
        ELSE [c EXCEPT !.changes = MapPut(@, callIdx, Append(changes, newVal))]

\* StorageChanges.append; bytes.Equal is equality of byte sequences
append(c, callIdx, newVal) ==
    LET ok == callIdx \in DOMAIN c.changes
        changes == IF ok THEN c.changes[callIdx] ELSE <<>>
    IN  IF ok /\ Len(changes) > 0 /\ changes[Len(changes)] = newVal
        THEN c
        ELSE [c EXCEPT !.changes = MapPut(@, callIdx, Append(changes, newVal))]

\* NewBranchKey
NewBranchKey(slot, offset, typeId, data) ==
    [slot |-> slot, offset |-> offset, children |-> EmptyMap, childrenIndex |-> EmptyMap,
     changes |-> NilChanges, data |-> data, typeId |-> typeId, nodeType |-> BranchNode]

\* NewRootKey
NewRootKey ==
    [slot |-> NilSlot, offset |-> 0, children |-> EmptyMap, childrenIndex |-> EmptyMap,
     changes |-> NilChanges, data |-> NoLabel, typeId |-> ZeroHash, nodeType |-> RootNode]

\* AddChild binding the label to the new child without looking for an earlier binding
AddChildRebind(ks, k, child) ==
    LET new == Len(ks) + 1
        pos == <<child.slot, child.offset>>
        bindPos == pos \notin DOMAIN ks[k].children
        k1 == [ks[k] EXCEPT !.childrenIndex = MapPut(@, child.data, new)]
        k2 == IF bindPos THEN [k1 EXCEPT !.children = MapPut(@, pos, new)] ELSE k1
    IN  [keys |-> Append([ks EXCEPT ![k] = k2], child),
         ret |-> IF bindPos THEN new ELSE ks[k].children[pos]]

\* AddChild binding the label and the position to the new child, bound or not
AddChildLastWins(ks, k, child) ==
    LET new == Len(ks) + 1
        pos == <<child.slot, child.offset>>
        k2 == [ks[k] EXCEPT !.childrenIndex = MapPut(@, child.data, new),
                            !.children = MapPut(@, pos, new)]
    IN  [keys |-> Append([ks EXCEPT ![k] = k2], child), ret |-> new]

\* StorageKey.AddChild on the key ks[k].  The child is put on the heap when
\* one of the two maps takes it; a child that neither map takes is garbage.
\* ret is the pointer returned.
AddChild(ks, k, child) ==
    LET new == Len(ks) + 1
        pos == <<child.slot, child.offset>>
        bindLabel == MapGet(ks[k].childrenIndex, child.data) = Nil
        bindPos == pos \notin DOMAIN ks[k].children
        k1 == IF bindLabel THEN [ks[k] EXCEPT !.childrenIndex = MapPut(@, child.data, new)]
                           ELSE ks[k]
        k2 == IF bindPos THEN [k1 EXCEPT !.children = MapPut(@, pos, new)] ELSE k1
    IN  [keys |-> IF bindLabel \/ bindPos THEN Append([ks EXCEPT ![k] = k2], child) ELSE ks,
         ret |-> IF bindPos THEN new ELSE ks[k].children[pos]]

\* JournalChanges turning every node it first journals into a Data node
JournalChangesAnyNode(k, callIdx, newVal) ==
    LET k1 == IF k.changes.isNil
              THEN [k EXCEPT !.nodeType = DataNode, !.changes = newStorageChange]
              ELSE k
    IN  [k1 EXCEPT !.changes = append(@, callIdx, newVal)]

\* StorageKey.JournalChanges, as the new value of the key k
JournalChanges(k, callIdx, newVal) ==
    LET k1 == IF k.changes.isNil
              THEN [k EXCEPT !.nodeType = IF @ # RootNode THEN DataNode ELSE @,
                             !.changes = newStorageChange]
              ELSE k
    IN  [k1 EXCEPT !.changes = append(@, callIdx, newVal)]

(***************************************************************************)
(* StateChanges                                                            *)
(***************************************************************************)

\* uint256.Int.Uint64WithOverflow: the low 64 bits, and whether a higher bit is set
Uint64WithOverflow(x) == [u64 |-> x.lo, overflow |-> x.hi # 0]

\* the range check with the overflow flag ignored
OffsetOverflowLow(offset) == offset # NilOff /\ Uint64WithOverflow(offset).u64 > 31

\* offset.Uint64WithOverflow() overflows or exceeds 31
OffsetOverflow(offset) ==
    offset # NilOff /\
        (Uint64WithOverflow(offset).overflow \/ Uint64WithOverflow(offset).u64 > 31)

\* offsetU8 of saveKey, saveChange and Slot
OffsetU8(offset) == IF offset = NilOff THEN 0 ELSE Uint64WithOverflow(offset).u64

RECURSIVE Bytes(_)
\* uint256.Int.Bytes: big-endian, no leading zero bytes
Bytes(n) == IF n = 0 THEN <<>> ELSE Append(Bytes(n \div 256), n % 256)

\* StateChanges.findKey in the index idx
findKeyIn(idx, account, slot, offset, typeId) == MapGet(idx, <<account, slot, offset, typeId>>)

\* StateChanges.findKey
findKey(account, slot, offset, typeId) == findKeyIn(index, account, slot, offset, typeId)

\* addKey filing the key also when its typeId entry is taken
addKeyOverwrite(idx, ks, account, slot, offset, key) ==
    MapPut(idx, <<account, slot, offset, ks[key].typeId>>, key)

\* StateChanges.addKey, as the new index; ks is the heap holding key
addKey(idx, ks, account, slot, offset, key) ==
    IF <<account, slot, offset, ks[key].typeId>> \in DOMAIN idx
    THEN idx
    ELSE MapPut(idx, <<account, slot, offset, ks[key].typeId>>, key)

\* the raw log keeping the first word saved at a triple
saveRawStateChangeKeepFirst(rw, account, slot, callIdx, val) ==
    IF <<account, slot, callIdx>> \in DOMAIN rw THEN rw
    ELSE MapPut(rw, <<account, slot, callIdx>>, val)

\* StateChanges.saveRawStateChange, as the new raw log
saveRawStateChange(rw, account, slot, callIdx, val) ==
    MapPut(rw, <<account, slot, callIdx>>, val)

\* StateChanges.saveKey on the heap ks, the roots rs and the index idx, as its
\* error, the parent node it resolved and the new keys, roots and index
saveKeyIn(ks, rs, idx, account, parent, self, offset, typeId, parentTypeId, label) ==
    IF OffsetOverflow(offset)
    THEN [err |-> "offset overflow", parent |-> Nil, keys |-> ks, roots |-> rs, index |-> idx]
    ELSE
      LET child == NewBranchKey(self, OffsetU8(offset), typeId, label) IN
      IF parent = NilSlot
      THEN LET hasRoot == MapGet(rs, account) # Nil
               ks1 == IF hasRoot THEN ks ELSE Append(ks, NewRootKey)
               rs1 == IF hasRoot THEN rs ELSE MapPut(rs, account, Len(ks) + 1)
               r == AddChild(ks1, rs1[account], child)
           IN  [err |-> "", parent |-> rs1[account], keys |-> r.keys, roots |-> rs1,
                index |-> addKey(idx, r.keys, account,
                                 r.keys[r.ret].slot, r.keys[r.ret].offset, r.ret)]
      ELSE LET parentKey == findKeyIn(idx, account, parent, 0, parentTypeId) IN
           IF parentKey = Nil
           THEN [err |-> "parent key not found", parent |-> Nil, keys |-> ks, roots |-> rs,
                 index |-> idx]
           ELSE LET r == AddChild(ks, parentKey, child)
                IN  [err |-> "", parent |-> parentKey, keys |-> r.keys, roots |-> rs,
                     index |-> addKey(idx, r.keys, account,
                                      r.keys[r.ret].slot, r.keys[r.ret].offset, r.ret)]

\* StateChanges.saveKey
saveKey(account, parent, self, offset, typeId, parentTypeId, label) ==
    saveKeyIn(keys, roots, index, account, parent, self, offset, typeId, parentTypeId, label)

\* saveChange without the look at the account's root
saveChangeNoRoot(account, self, offset, typeId, callIdx, newVal) ==
    IF OffsetOverflow(offset)
    THEN [err |-> "offset overflow", node |-> Nil, keys |-> keys]
    ELSE LET selfNode == findKey(account, self, OffsetU8(offset), typeId) IN
         IF selfNode = Nil
         THEN [err |-> "storage key node not found", node |-> Nil, keys |-> keys]
         ELSE [err |-> "", node |-> selfNode,
               keys |-> [keys EXCEPT ![selfNode] = JournalChanges(@, callIdx, newVal)]]

\* StateChanges.saveChange, as its error, the node journaled to and the new keys
saveChange(account, self, offset, typeId, callIdx, newVal) ==
    IF OffsetOverflow(offset)
    THEN [err |-> "offset overflow", node |-> Nil, keys |-> keys]
    ELSE IF MapGet(roots, account) = Nil
    THEN [err |-> "unknown account", node |-> Nil, keys |-> keys]
    ELSE LET selfNode == findKey(account, self, OffsetU8(offset), typeId) IN
         IF selfNode = Nil
         THEN [err |-> "storage key node not found", node |-> Nil, keys |-> keys]
         ELSE [err |-> "", node |-> selfNode,
               keys |-> [keys EXCEPT ![selfNode] = JournalChanges(@, callIdx, newVal)]]

\* saveBalance journaling under call index 0 whatever the call index is
saveBalanceIndexZero(ks, rs, account, newBalance, callIdx) ==
    LET ok == account \in DOMAIN rs
        ks1 == IF ok THEN ks ELSE Append(ks, NewRootKey)
        rs1 == IF ok THEN rs ELSE MapPut(rs, account, Len(ks) + 1)
        rootKey == rs1[account]
    IN  [node |-> rootKey, roots |-> rs1,
         keys |-> [ks1 EXCEPT ![rootKey] = JournalChanges(@, 0, Bytes(newBalance))]]

\* StateChanges.saveBalance on the heap ks and the roots rs, as the root
\* journaled to and the new keys and roots
saveBalance(ks, rs, account, newBalance, callIdx) ==
    LET ok == account \in DOMAIN rs
        ks1 == IF ok THEN ks ELSE Append(ks, NewRootKey)
        rs1 == IF ok THEN rs ELSE MapPut(rs, account, Len(ks) + 1)
        rootKey == rs1[account]
    IN  [node |-> rootKey, roots |-> rs1,
         keys |-> [ks1 EXCEPT ![rootKey] = JournalChanges(@, callIdx, Bytes(newBalance))]]

\* StateChanges.Balance
Balance(account) == IF account \notin DOMAIN roots THEN NilChanges ELSE keys[roots[account]].changes

RECURSIVE Walk(_, _)
\* the loop of FindKeyIndices: follow the labels of indices from cursor
Walk(cursor, indices) ==
    IF indices = <<>> THEN cursor
    ELSE IF Head(indices) \notin DOMAIN keys[cursor].childrenIndex THEN Nil
    ELSE Walk(keys[cursor].childrenIndex[Head(indices)], Tail(indices))

\* StateChanges.FindKeyIndices
FindKeyIndices(account, stateVarName, indices) ==
    IF account \notin DOMAIN roots THEN Nil
    ELSE IF stateVarName \notin DOMAIN keys[roots[account]].childrenIndex THEN Nil
    ELSE Walk(keys[roots[account]].childrenIndex[stateVarName], indices)

\* StateChanges.Variable
Variable(account, stateVarName, indices) ==
    LET key == FindKeyIndices(account, stateVarName, indices)
    IN  IF key = Nil THEN NilChanges ELSE keys[key].changes

\* StateChanges.Slot, as the changes and the error returned
Slot(account, slot, offset, typeId) ==
    IF slot = NilSlot THEN [changes |-> NilChanges, err |-> "slot empty"]
    ELSE IF OffsetOverflow(offset) THEN [changes |-> NilChanges, err |-> "offset overflow"]
    ELSE LET key == findKey(account, slot, OffsetU8(offset), typeId)
         IN  IF key = Nil THEN [changes |-> NilChanges, err |-> ""]
             ELSE [changes |-> keys[key].changes, err |-> ""]

\* IndicesOfChanges returning nil for a node without labels
IndicesOfChangesNilWhenEmpty(account, stateVarName, indices) ==
    LET key == FindKeyIndices(account, stateVarName, indices)
    IN  IF key = Nil \/ DOMAIN keys[key].childrenIndex = {}
        THEN [isNil |-> TRUE, labels |-> {}]
        ELSE [isNil |-> FALSE, labels |-> DOMAIN keys[key].childrenIndex]

\* StateChanges.IndicesOfChanges; the slice is built by ranging over a map, so
\* its order is not determined and the result is the set of its elements
IndicesOfChanges(account, stateVarName, indices) ==
    LET key == FindKeyIndices(account, stateVarName, indices)
    IN  IF key = Nil THEN [isNil |-> TRUE, labels |-> {}]
        ELSE [isNil |-> FALSE, labels |-> DOMAIN keys[key].childrenIndex]

(***************************************************************************)
(* Tracer                                                                  *)
(***************************************************************************)

\* the call index taken from count instead of the cursor
CurrentCallIndexCount == IF count > 0 THEN count - 1 ELSE 0

\* the call index taken to be that of the next call when no call is open
CurrentCallIndexNext == IF current # Nil THEN calls[current].Index ELSE count

\* Tracer.CurrentCallIndex
CurrentCallIndex == IF current # Nil THEN calls[current].Index ELSE 0

\* the journal event of a JournalChanges(callIdx, val) on node n that turned
\* the heap ks into ks2; kept tells whether append recorded the value, open is
\* the innermost open call of the operation history at that moment
Event(ks, ks2, n, callIdx, val) ==
    [key |-> n, callIdx |-> callIdx, val |-> val,
     kept |-> IF n \in DOMAIN ks THEN ks2[n].changes # ks[n].changes ELSE TRUE,
     open |-> InnermostAfter(Len(callOps))]

\* what Tracer.SaveStateKey does to the tracer
TracerSaveStateKey(account, parent, self, offset, typeId, parentTypeId, label) ==
    LET r == saveKey(account, parent, self, offset, typeId, parentTypeId, label) IN
    /\ keys' = r.keys
    /\ roots' = r.roots
    /\ index' = r.index
    /\ registered' = IF r.err = "" THEN registered \cup {<<r.parent, label>>} ELSE registered
    /\ UNCHANGED <<treeVars, raw, balances, callOps, journal>>

\* Tracer.SaveStateKey
SaveStateKey(account, parent, self, offset, typeId, parentTypeId, label) ==
    /\ TracerSaveStateKey(account, parent, self, offset, typeId, parentTypeId, label)
    /\ last' = [op |-> "saveKey", args |-> <<account, self, offset, typeId>>,
                err |-> saveKey(account, parent, self, offset, typeId, parentTypeId, label).err]
    /\ UNCHANGED evmVars

\* what Tracer.SaveStateChange does to the tracer
TracerSaveStateChange(account, slot, offset, typeId, newVal) ==
    LET callIdx == CurrentCallIndex
        r == saveChange(account, slot, offset, typeId, callIdx, newVal) IN
    /\ keys' = r.keys
    /\ journal' = IF r.err = "" THEN Append(journal, Event(keys, r.keys, r.node, callIdx, newVal))
                                ELSE journal
    /\ UNCHANGED <<treeVars, roots, index, raw, balances, registered, callOps>>

\* Tracer.SaveStateChange
SaveStateChange(account, slot, offset, typeId, newVal) ==
    /\ TracerSaveStateChange(account, slot, offset, typeId, newVal)
    /\ last' = [op |-> "saveChange", args |-> <<account, slot, offset, typeId, newVal>>,
                err |-> saveChange(account, slot, offset, typeId, CurrentCallIndex, newVal).err]
    /\ UNCHANGED evmVars

\* Tracer.SaveRawStateChange
SaveRawStateChange(account, slot, val) ==
    /\ raw' = saveRawStateChange(raw, account, slot, CurrentCallIndex, val)
    /\ last' = [op |-> "saveRaw", args |-> <<account, slot, val>>, err |-> ""]
    /\ UNCHANGED <<treeVars, keys, roots, index, balances, evmVars, registered, callOps, journal>>

\* the transfer function handed to TransferWithRecord: the sender is debited
\* and the recipient credited
Transfer(db, from, to, amount) ==
    LET db1 == [db EXCEPT ![from] = @ - amount]
    IN  [db1 EXCEPT ![to] = @ + amount]

\* Tracer.TransferWithRecord
TransferWithRecord(from, to, amount) ==
    LET callIdx == CurrentCallIndex
        s1 == saveBalance(keys, roots, from, balances[from], callIdx)
        s2 == saveBalance(s1.keys, s1.roots, to, balances[to], callIdx)
        db == Transfer(balances, from, to, amount)
        s3 == saveBalance(s2.keys, s2.roots, from, db[from], callIdx)
        s4 == saveBalance(s3.keys, s3.roots, to, db[to], callIdx)
    IN  /\ keys' = s4.keys
        /\ roots' = s4.roots
        /\ balances' = db
        /\ journal' = journal \o
              << Event(keys, s1.keys, s1.node, callIdx, Bytes(balances[from])),
                 Event(s1.keys, s2.keys, s2.node, callIdx, Bytes(balances[to])),
                 Event(s2.keys, s3.keys, s3.node, callIdx, Bytes(db[from])),
                 Event(s3.keys, s4.keys, s4.node, callIdx, Bytes(db[to])) >>
        /\ last' = [op |-> "transfer", args |-> <<from, to, amount>>, err |-> ""]
        /\ UNCHANGED <<treeVars, index, raw, evmVars, registered, callOps>>

(***************************************************************************)
(* Instructions                                                            *)
(***************************************************************************)

\* uint256.Int.Bytes32: 32 bytes, big-endian
Bytes32(n) ==
    LET b == Bytes(n)
    IN  [i \in 1..32 |-> IF i <= 32 - Len(b) THEN 0 ELSE b[i - (32 - Len(b))]]

\* StateDB.SetState: the word val is stored at key of the account addr
SetState(db, addr, key, val) == MapPut(db, <<addr, key>>, val)

\* opPush1 with the code byte b after the instruction
OpPush1(b) ==
    /\ pc' = pc + 1
    /\ stack' = Append(stack, b)
    /\ last' = [op |-> "push", args |-> <<b>>, err |-> ""]
    /\ UNCHANGED <<treeVars, keys, roots, index, raw, balances, storage, readOnly,
                   memory, gas, returnData, logs, suicided, invoked, outsideVars,
                   registered, callOps, journal>>

\* opSstore in the contract addr: the stack top is loc, the word below it val
OpSstore(addr) ==
    /\ Len(stack) >= 2
    /\ IF readOnly
       THEN /\ last' = [op |-> "sstore", args |-> <<addr>>, err |-> "write protection"]
            /\ UNCHANGED <<stack, storage>>
       ELSE LET loc == stack[Len(stack)]
                val == stack[Len(stack) - 1]
            IN  /\ stack' = SubSeq(stack, 1, Len(stack) - 2)
                /\ storage' = SetState(storage, addr, Bytes32(loc), Bytes32(val))
                /\ last' = [op |-> "sstore", args |-> <<addr, loc, val>>, err |-> ""]
    /\ UNCHANGED <<treeVars, keys, roots, index, raw, balances, readOnly, frameVars,
                   outsideVars,
                   registered, callOps, journal>>

(***************************************************************************)
(* Journal instructions                                                    *)
(***************************************************************************)

oneSlot == 32
storageMask == 255

\* a stack word as a uint256; the words of the model fit 64 bits
ToU256(w) == U256(0, w)

\* the stack without its n top words
Pop(n) == SubSeq(stack, 1, Len(stack) - n)

\* the word the i-th Stack.pop returns
Operand(i) == stack[Len(stack) + 1 - i]

RECURSIVE IntOf(_)
\* uint256.Int.SetBytes followed by Uint64, for big-endian bytes whose value fits
IntOf(b) == IF b = <<>> THEN 0 ELSE IntOf(SubSeq(b, 1, Len(b) - 1)) * 256 + b[Len(b)]

RECURSIVE TrimZeros(_)
\* uint256.Int.Bytes of SetBytes(b): the bytes b without its leading zero bytes
TrimZeros(b) == IF b # <<>> /\ b[1] = 0 THEN TrimZeros(Tail(b)) ELSE b

\* StateDB.GetState: the word stored at key of the account addr, zero when none
GetState(db, addr, key) == IF <<addr, key>> \in DOMAIN db THEN db[<<addr, key>>] ELSE Bytes32(0)

\* Memory.GetCopy: size bytes from off on; memory is zero beyond its length
GetCopy(mem, off, size) == [i \in 1..size |-> IF off + i <= Len(mem) THEN mem[off + i] ELSE 0]

\* the keccak closure of opReferenceChangeJournal: distinct inputs give distinct
\* words, far enough apart for the words that follow them
Keccak256(data) == 4096 + 16 * (33 * IntOf(data) + Len(data))

\* the closure with the comparison of the flag to isLess turned around
extractStorageLenInverted(rawData) ==
    LET outOfPlaceEncoding == rawData[32] % 2
        length == (rawData[32] \div 2) % 128
    IN  IF outOfPlaceEncoding = 0 /\ length < oneSlot
        THEN [length |-> 0, err |-> "storage encoding error"]
        ELSE [length |-> length, err |-> ""]

\* the extractStorageLen closure of opReferenceChangeJournal on the 32 bytes of
\* a slot word, as the length and the error
extractStorageLen(rawData) ==
    LET outOfPlaceEncoding == rawData[32] % 2
        \* length = dataLen / 2 does not fit 64 bits
        tooLarge == outOfPlaceEncoding = 1 /\
                        ((\E i \in 1..23 : rawData[i] # 0) \/ rawData[24] >= 2)
        length == IF outOfPlaceEncoding = 0
                  THEN (rawData[32] \div 2) % 128
                  ELSE IntOf(SubSeq(rawData, 25, 32)) \div 2
        isLess == IF ~tooLarge /\ length < oneSlot THEN 1 ELSE 0
    IN  IF outOfPlaceEncoding = isLess
        THEN [length |-> 0, err |-> "storage encoding error"]
        ELSE IF tooLarge
        THEN [length |-> 0, err |-> "storage too large to load"]
        ELSE [length |-> length, err |-> ""]

\* the unmask closure of opReferenceChangeJournal: the word without its low
\* byte, as the bytes uint256.Int.Bytes gives
unmask(rawData) == TrimZeros([rawData EXCEPT ![32] = @ - (@ % (storageMask + 1))])

\* the u64Ceiling closure of opReferenceChangeJournal
u64Ceiling(nom, denom) == (nom + denom - 1) \div denom

RECURSIVE ReferenceWords(_, _, _, _)
\* the loop of opReferenceChangeJournal: referenceSlot is incremented, then the
\* word at it is read and appended, n times
ReferenceWords(db, addr, referenceSlot, n) ==
    IF n = 0 THEN <<>>
    ELSE ReferenceWords(db, addr, referenceSlot, n - 1)
            \o GetState(db, addr, Bytes32(referenceSlot + n))

\* loadDataFromMem, as the data, its length and the error
loadDataFromMem(memPtr, mem) ==
    LET offset == Uint64WithOverflow(memPtr).u64
        dataLen == IntOf(SubSeq(GetCopy(mem, offset, 32), 25, 32))
    IN  IF Uint64WithOverflow(memPtr).overflow
        THEN [data |-> <<>>, len |-> 0, err |-> "mem data too long"]
        ELSE [data |-> GetCopy(mem, offset + 32, dataLen), len |-> dataLen, err |-> ""]

\* the tracer as a journal opcode leaves it when it returns before its tracer call
Untraced ==
    UNCHANGED <<treeVars, keys, roots, index, raw, balances, registered, callOps, journal>>

\* a journal opcode that popped n operands and returned err before its tracer call
ReturnedEarly(op, n, err) ==
    /\ stack' = Pop(n)
    /\ last' = [op |-> op, args |-> <<>>, err |-> err, emitted |-> FALSE]
    /\ Untraced
    /\ UNCHANGED <<storage, readOnly, frameVars, outsideVars>>

\* a journal opcode that popped n operands and panicked on a slice expression
Panicked(op, n) == ReturnedEarly(op, n, "panic: slice bounds out of range")

\* a journal opcode that popped n operands and returned what
\* Tracer.SaveStateKey returned
ReturnedSaveStateKey(op, n, account, parent, self, offset, typeId, parentTypeId, label) ==
    /\ stack' = Pop(n)
    /\ TracerSaveStateKey(account, parent, self, offset, typeId, parentTypeId, label)
    /\ last' = [op |-> op,
                args |-> <<account, parent, self, offset, typeId, parentTypeId, label>>,
                err |-> saveKey(account, parent, self, offset, typeId, parentTypeId, label).err,
                emitted |-> TRUE]
    /\ UNCHANGED <<storage, readOnly, frameVars, outsideVars>>

\* a journal opcode that popped n operands and returned what
\* Tracer.SaveStateChange returned
ReturnedSaveStateChange(op, n, account, slot, offset, typeId, newVal) ==
    /\ stack' = Pop(n)
    /\ TracerSaveStateChange(account, slot, offset, typeId, newVal)
    /\ last' = [op |-> op, args |-> <<account, slot, offset, typeId, newVal>>,
                err |-> saveChange(account, slot, offset, typeId, CurrentCallIndex, newVal).err,
                emitted |-> TRUE]
    /\ UNCHANGED <<storage, readOnly, frameVars, outsideVars>>

\* opReferenceChangeJournal keeping the whole unmasked word of a short value
OpReferenceChangeJournalWhole(addr) ==
    /\ Len(stack) >= 2
    /\ LET storageSlot == Operand(1)
           typeId == Operand(2)
           rawState == GetState(storage, addr, Bytes32(storageSlot))
           e == extractStorageLen(rawState)
       IN  IF e.err # "" THEN ReturnedEarly("rjournal", 2, e.err)
           ELSE ReturnedSaveStateChange("rjournal", 2, addr, storageSlot, NilOff,
                                        Bytes32(typeId), unmask(rawState))

\* opReferenceChangeJournal in the contract addr
OpReferenceChangeJournal(addr) ==
    /\ Len(stack) >= 2
    /\ LET storageSlot == Operand(1)
           typeId == Operand(2)
           rawState == GetState(storage, addr, Bytes32(storageSlot))
           e == extractStorageLen(rawState)
           short == unmask(rawState)
           referenceSlot == Keccak256(Bytes(storageSlot))
           stateBytes == IF e.length < 32
                         THEN SubSeq(short, 1, e.length)
                         ELSE ReferenceWords(storage, addr, referenceSlot,
                                             u64Ceiling(e.length, 32))
       IN  IF e.err # "" THEN ReturnedEarly("rjournal", 2, e.err)
           ELSE IF e.length < 32 /\ e.length > Len(short) THEN Panicked("rjournal", 2)
           ELSE ReturnedSaveStateChange("rjournal", 2, addr, storageSlot, NilOff,
                                        Bytes32(typeId), stateBytes)

\* opValueChangeJournal taking the window from the most significant end
OpValueChangeJournalFromTop(addr) ==
    /\ Len(stack) >= 4
    /\ LET storageSlot == Operand(1)
           offset == ToU256(Operand(2))
           typeSize == ToU256(Operand(3))
           typeId == Operand(4)
           o == Uint64WithOverflow(offset)
           t == Uint64WithOverflow(typeSize)
           newVal == GetState(storage, addr, Bytes32(storageSlot))
       IN  IF o.overflow \/ o.u64 > 31 THEN ReturnedEarly("vjournal", 4, "offset out of range")
           ELSE IF t.overflow \/ t.u64 > 32
           THEN ReturnedEarly("vjournal", 4, "type size out of range")
           ELSE IF o.u64 + t.u64 > 32 THEN Panicked("vjournal", 4)
           ELSE ReturnedSaveStateChange("vjournal", 4, addr, storageSlot, offset,
                                        Bytes32(typeId),
                                        SubSeq(newVal, o.u64 + 1, o.u64 + t.u64))

\* opValueChangeJournal in the contract addr
OpValueChangeJournal(addr) ==
    /\ Len(stack) >= 4
    /\ LET storageSlot == Operand(1)
           offset == ToU256(Operand(2))
           typeSize == ToU256(Operand(3))
           typeId == Operand(4)
           o == Uint64WithOverflow(offset)
           t == Uint64WithOverflow(typeSize)
           newVal == GetState(storage, addr, Bytes32(storageSlot))
           start == 32 - o.u64 - t.u64
           end == 32 - o.u64
       IN  IF o.overflow \/ o.u64 > 31 THEN ReturnedEarly("vjournal", 4, "offset out of range")
           ELSE IF t.overflow \/ t.u64 > 32
           THEN ReturnedEarly("vjournal", 4, "type size out of range")
           \* start wraps around in 64 bits and newVal[start:end] is out of range
           ELSE IF start < 0 THEN Panicked("vjournal", 4)
           ELSE ReturnedSaveStateChange("vjournal", 4, addr, storageSlot, offset,
                                        Bytes32(typeId), SubSeq(newVal, start + 1, end))

\* opReferenceIndexValueStorageJournal in the contract addr
OpReferenceIndexValueStorageJournal(addr) ==
    /\ Len(stack) >= 6
    /\ LET base == Operand(1)
           storageSlot == Operand(2)
           keyPtr == ToU256(Operand(3))
           offset == ToU256(Operand(4))
           typeId == Operand(5)
           parentTypeId == Operand(6)
           l == loadDataFromMem(keyPtr, memory)
       IN  IF l.err # "" THEN ReturnedEarly("rivjournal", 6, l.err)
           ELSE ReturnedSaveStateKey("rivjournal", 6, addr, base, storageSlot, offset,
                                     Bytes32(typeId), Bytes32(parentTypeId), l.data)

\* opValueIndexValueStorageJournal in the contract addr
OpValueIndexValueStorageJournal(addr) ==
    /\ Len(stack) >= 6
    /\ LET base == Operand(1)
           storageSlot == Operand(2)
           keyValue == Operand(3)
           offset == ToU256(Operand(4))
           typeId == Operand(5)
           parentTypeId == Operand(6)
       IN  ReturnedSaveStateKey("vivjournal", 6, addr, base, storageSlot, offset,
                                Bytes32(typeId), Bytes32(parentTypeId), Bytes32(keyValue))

\* opReferenceIndexReferenceStorageJournal in the contract addr
OpReferenceIndexReferenceStorageJournal(addr) ==
    /\ Len(stack) >= 5
    /\ LET base == Operand(1)
           storageSlot == Operand(2)
           keyPtr == ToU256(Operand(3))
           typeId == Operand(4)
           parentTypeId == Operand(5)
           l == loadDataFromMem(keyPtr, memory)
       IN  IF l.err # "" THEN ReturnedEarly("rirjournal", 5, l.err)
           ELSE ReturnedSaveStateKey("rirjournal", 5, addr, base, storageSlot, NilOff,
                                     Bytes32(typeId), Bytes32(parentTypeId), l.data)

\* opValueIndexReferenceStorageJournal in the contract addr
OpValueIndexReferenceStorageJournal(addr) ==
    /\ Len(stack) >= 5
    /\ LET base == Operand(1)
           storageSlot == Operand(2)
           keyValue == Operand(3)
           typeId == Operand(4)
           parentTypeId == Operand(5)
       IN  ReturnedSaveStateKey("virjournal", 5, addr, base, storageSlot, NilOff,
                                Bytes32(typeId), Bytes32(parentTypeId), Bytes32(keyValue))

\* opReferenceStateVarJournal in the contract addr
OpReferenceStateVarJournal(addr) ==
    /\ Len(stack) >= 3
    /\ LET stateVarNamePtr == ToU256(Operand(1))
           storageSlot == Operand(2)
           typeId == Operand(3)
           l == loadDataFromMem(stateVarNamePtr, memory)
       IN  IF l.err # "" THEN ReturnedEarly("rssvar", 3, l.err)
           ELSE ReturnedSaveStateKey("rssvar", 3, addr, NilSlot, storageSlot, NilOff,
                                     Bytes32(typeId), Bytes32(0), l.data)

\* opValueStateVarJournal popping the name pointer, the slot and the offset only
OpValueStateVarJournalShort(addr) ==
    /\ Len(stack) >= 4
    /\ LET stateVarNamePtr == ToU256(Operand(1))
           storageSlot == Operand(2)
           offset == ToU256(Operand(3))
           typeId == Operand(4)
           l == loadDataFromMem(stateVarNamePtr, memory)
       IN  IF l.err # "" THEN ReturnedEarly("vssvar", 3, l.err)
           ELSE ReturnedSaveStateKey("vssvar", 3, addr, NilSlot, storageSlot, offset,
                                     Bytes32(typeId), Bytes32(0), l.data)

\* opValueStateVarJournal returning no error whatever the tracer returned
OpValueStateVarJournalSilent(addr) ==
    /\ Len(stack) >= 4
    /\ LET stateVarNamePtr == ToU256(Operand(1))
           storageSlot == Operand(2)
           offset == ToU256(Operand(3))
           typeId == Operand(4)
           l == loadDataFromMem(stateVarNamePtr, memory)
       IN  /\ stack' = Pop(4)
           /\ TracerSaveStateKey(addr, NilSlot, storageSlot, offset, Bytes32(typeId),
                                 Bytes32(0), l.data)
           /\ last' = [op |-> "vssvar",
                       args |-> <<addr, NilSlot, storageSlot, offset, Bytes32(typeId),
                                  Bytes32(0), l.data>>,
                       err |-> "", emitted |-> TRUE]
           /\ UNCHANGED <<storage, readOnly, frameVars, outsideVars>>

\* opValueStateVarJournal in the contract addr
OpValueStateVarJournal(addr) ==
    /\ Len(stack) >= 4
    /\ LET stateVarNamePtr == ToU256(Operand(1))
           storageSlot == Operand(2)
           offset == ToU256(Operand(3))
           typeId == Operand(4)
           l == loadDataFromMem(stateVarNamePtr, memory)
       IN  IF l.err # "" THEN ReturnedEarly("vssvar", 4, l.err)
           ELSE ReturnedSaveStateKey("vssvar", 4, addr, NilSlot, storageSlot, offset,
                                     Bytes32(typeId), Bytes32(0), l.data)

(***************************************************************************)
(* System instructions                                                     *)
(***************************************************************************)

ErrWriteProtection == "write protection"
ErrExecutionReverted == "execution reverted"
ErrCodeStoreOutOfGas == "contract creation code storage out of gas"

\* uint256.Int.Bytes20 as an address: the accounts are numbered from 1 on
ToAddr(w) == IF w = 1 THEN "a1" ELSE IF w = 2 THEN "a2" ELSE "a0"

\* StateDB.AddBalance
AddBalance(db, addr, amount) ==
    IF addr \in DOMAIN db THEN [db EXCEPT ![addr] = @ + amount] ELSE MapPut(db, addr, amount)

\* StateDB.Suicide: the balance of the account is cleared
Suicide(db, addr) == [db EXCEPT ![addr] = 0]

\* Memory.Set: the size bytes from offset on take the bytes of value, the
\* memory growing with zero bytes to hold them
MemorySet(mem, offset, size, value) ==
    IF size = 0 THEN mem
    ELSE [i \in 1..(IF Len(mem) > offset + size THEN Len(mem) ELSE offset + size) |->
            IF i > offset /\ i <= offset + size /\ i - offset <= Len(value)
            THEN value[i - offset]
            ELSE IF i <= Len(mem) THEN mem[i] ELSE 0]

\* the tracer and the read-only flag, which no system instruction touches
SystemUntouched ==
    UNCHANGED <<treeVars, keys, roots, index, raw, readOnly, pc, outsideVars,
                registered, callOps, journal>>

\* a system instruction that returned ErrWriteProtection before its first pop
WriteProtected(op) ==
    /\ last' = [op |-> op, args |-> <<>>, err |-> ErrWriteProtection]
    /\ SystemUntouched
    /\ UNCHANGED <<stack, storage, balances, memory, gas, returnData, logs, suicided, invoked>>

\* makeLog(size) in the contract addr
OpLog(addr, size) ==
    /\ Len(stack) >= 2 + size
    /\ IF readOnly THEN WriteProtected("log")
       ELSE LET mStart == Operand(1)
                mSize == Operand(2)
                topics == [i \in 1..size |-> Bytes32(Operand(2 + i))]
                d == GetCopy(memory, mStart, mSize)
            IN  /\ stack' = Pop(2 + size)
                /\ logs' = Append(logs, [Address |-> addr, Topics |-> topics, Data |-> d])
                /\ last' = [op |-> "log", args |-> <<size>>, err |-> ""]
                /\ SystemUntouched
                /\ UNCHANGED <<storage, balances, memory, gas, returnData, suicided, invoked>>

\* opSelfdestruct in the contract addr
OpSelfdestruct(addr) ==
    /\ Len(stack) >= 1
    /\ IF readOnly THEN WriteProtected("selfdestruct")
       ELSE LET beneficiary == Operand(1)
                balance == balances[addr]
            IN  /\ stack' = Pop(1)
                /\ balances' = Suicide(AddBalance(balances, ToAddr(beneficiary), balance), addr)
                /\ suicided' = suicided \cup {addr}
                /\ last' = [op |-> "selfdestruct", args |-> <<beneficiary>>, err |-> "stop"]
                /\ SystemUntouched
                /\ UNCHANGED <<storage, memory, gas, returnData, logs, invoked>>

\* opCreate in the contract addr under the chain rules; r is what EVM.Create returns
OpCreate(addr, rules, r) ==
    /\ Len(stack) >= 3
    /\ IF readOnly THEN WriteProtected("create")
       ELSE LET value == Operand(1)
                offset == Operand(2)
                size == Operand(3)
                input == GetCopy(memory, offset, size)
                g == IF rules.IsEIP150 THEN gas - gas \div 64 ELSE gas
                stackvalue == IF rules.IsHomestead /\ r.suberr = ErrCodeStoreOutOfGas THEN 0
                              ELSE IF r.suberr # "" /\ r.suberr # ErrCodeStoreOutOfGas THEN 0
                              ELSE r.addr
            IN  /\ stack' = Append(Pop(3), stackvalue)
                /\ gas' = gas - g + r.returnGas
                /\ invoked' = Append(invoked, [kind |-> "create", to |-> "", value |-> value,
                                               input |-> input, ret |-> r.res,
                                               returnGas |-> r.returnGas, err |-> r.suberr])
                /\ returnData' = IF r.suberr = ErrExecutionReverted THEN r.res ELSE <<>>
                /\ last' = [op |-> "create", args |-> <<value, offset, size>>, err |-> ""]
                /\ SystemUntouched
                /\ UNCHANGED <<storage, balances, memory, logs, suicided>>

\* opCreate2 in the contract addr; r is what EVM.Create2 returns
OpCreate2(addr, r) ==
    /\ Len(stack) >= 4
    /\ IF readOnly THEN WriteProtected("create2")
       ELSE LET endowment == Operand(1)
                offset == Operand(2)
                size == Operand(3)
                salt == Operand(4)
                input == GetCopy(memory, offset, size)
                g == gas - gas \div 64
                stackvalue == IF r.suberr # "" THEN 0 ELSE r.addr
            IN  /\ stack' = Append(Pop(4), stackvalue)
                /\ gas' = gas - g + r.returnGas
                /\ invoked' = Append(invoked, [kind |-> "create2", to |-> "", value |-> endowment,
                                               input |-> input, ret |-> r.res,
                                               returnGas |-> r.returnGas, err |-> r.suberr])
                /\ returnData' = IF r.suberr = ErrExecutionReverted THEN r.res ELSE <<>>
                /\ last' = [op |-> "create2", args |-> <<endowment, offset, size, salt>>,
                            err |-> ""]
                /\ SystemUntouched
                /\ UNCHANGED <<storage, balances, memory, logs, suicided>>

\* the part the four call instructions share once the callee returned r: the
\* n operands popped, the flag pushed, the return data copied, the gas returned
Called(op, n, kind, toAddr, value, args, retOffset, retSize, r) ==
    /\ stack' = Append(Pop(n), IF r.err # "" THEN 0 ELSE 1)
    /\ memory' = IF r.err = "" \/ r.err = ErrExecutionReverted
                 THEN MemorySet(memory, retOffset, retSize, r.ret)
                 ELSE memory
    /\ gas' = gas + r.returnGas
    /\ returnData' = r.ret
    /\ invoked' = Append(invoked, [kind |-> kind, to |-> toAddr, value |-> value,
                                   input |-> args, ret |-> r.ret,
                                   returnGas |-> r.returnGas, err |-> r.err])
    /\ last' = [op |-> op, args |-> <<toAddr, value>>, err |-> ""]
    /\ SystemUntouched
    /\ UNCHANGED <<storage, balances, logs, suicided>>

\* opCall handing the call to the EVM whatever the mode
OpCallUnprotected(addr, r) ==
    /\ Len(stack) >= 7
    /\ Called("call", 7, "call", ToAddr(Operand(2)), Operand(3),
              GetCopy(memory, Operand(4), Operand(5)), Operand(6), Operand(7), r)

\* opCall in the contract addr; r is what EVM.Call returns
OpCall(addr, r) ==
    /\ Len(stack) >= 7
    /\ LET toAddr == ToAddr(Operand(2))
           value == Operand(3)
           inOffset == Operand(4)
           inSize == Operand(5)
           retOffset == Operand(6)
           retSize == Operand(7)
           args == GetCopy(memory, inOffset, inSize)
       IN  IF readOnly /\ value # 0
           THEN /\ stack' = Pop(7)
                /\ last' = [op |-> "call", args |-> <<toAddr, value>>,
                            err |-> ErrWriteProtection]
                /\ SystemUntouched
                /\ UNCHANGED <<storage, balances, memory, gas, returnData, logs, suicided,
                               invoked>>
           ELSE Called("call", 7, "call", toAddr, value, args, retOffset, retSize, r)

\* opCallCode in the contract addr; r is what EVM.CallCode returns
OpCallCode(addr, r) ==
    /\ Len(stack) >= 7
    /\ Called("callcode", 7, "callcode", ToAddr(Operand(2)), Operand(3),
              GetCopy(memory, Operand(4), Operand(5)), Operand(6), Operand(7), r)

\* opDelegateCall returning the callee's error as its own
OpDelegateCallFailing(addr, r) ==
    /\ Len(stack) >= 6
    /\ stack' = Append(Pop(6), IF r.err # "" THEN 0 ELSE 1)
    /\ memory' = MemorySet(memory, Operand(5), Operand(6), r.ret)
    /\ gas' = gas + r.returnGas
    /\ returnData' = r.ret
    /\ invoked' = Append(invoked, [kind |-> "delegatecall", to |-> ToAddr(Operand(2)),
                                   value |-> 0,
                                   input |-> GetCopy(memory, Operand(3), Operand(4)),
                                   ret |-> r.ret, returnGas |-> r.returnGas, err |-> r.err])
    /\ last' = [op |-> "delegatecall", args |-> <<ToAddr(Operand(2)), 0>>, err |-> r.err]
    /\ SystemUntouched
    /\ UNCHANGED <<storage, balances, logs, suicided>>

\* opDelegateCall in the contract addr; r is what EVM.DelegateCall returns
OpDelegateCall(addr, r) ==
    /\ Len(stack) >= 6
    /\ Called("delegatecall", 6, "delegatecall", ToAddr(Operand(2)), 0,
              GetCopy(memory, Operand(3), Operand(4)), Operand(5), Operand(6), r)

\* opStaticCall in the contract addr; r is what EVM.StaticCall returns
OpStaticCall(addr, r) ==
    /\ Len(stack) >= 6
    /\ Called("staticcall", 6, "staticcall", ToAddr(Operand(2)), 0,
              GetCopy(memory, Operand(3), Operand(4)), Operand(5), Operand(6), r)

(***************************************************************************)
(* Jump instructions                                                       *)
(***************************************************************************)
ErrInvalidJump == "invalid jump destination"

errStopToken == "stop"

\* the code of the running contract: JUMPDEST, PUSH1 0x5b, JUMPDEST, STOP
Code == <<91, 96, 91, 91, 0>>

\* the number of immediate bytes of the opcode b (PUSH1..PUSH32)
PushWidth(b) == IF b \in 96..127 THEN b - 95 ELSE 0

RECURSIVE Opcodes(_)
\* the positions from i on that hold an opcode, a PUSH immediate being skipped
Opcodes(i) ==
    IF i >= Len(Code) THEN {} ELSE {i} \cup Opcodes(i + 1 + PushWidth(Code[i + 1]))

\* Contract.validJumpdest: dest is in the code, holds JUMPDEST and is an opcode
validJumpdest(dest) ==
    /\ dest >= 0
    /\ dest < Len(Code)
    /\ Code[dest + 1] = 91
    /\ dest \in Opcodes(0)

\* x - 1 and x + 1 on uint64: 2^64 - 1 is written -1, its two's complement
Dec64(x) == IF x = 0 THEN -1 ELSE x - 1

Inc64(x) == IF x = -1 THEN 0 ELSE x + 1

\* a jump instruction that returned err with n operands popped and pc at to
Jumped(op, n, to, err) ==
    /\ stack' = Pop(n)
    /\ pc' = to
    /\ last' = [op |-> op, args |-> <<>>, err |-> err]
    /\ Untraced
    /\ UNCHANGED <<storage, readOnly, memory, gas, returnData, logs, suicided, invoked,
                   outsideVars>>

\* opJump with pc set to the target itself
OpJumpToTarget ==
    IF abort
    THEN Jumped("jump", 0, pc, errStopToken)
    ELSE /\ Len(stack) >= 1
         /\ LET pos == Operand(1)
            IN  IF ~validJumpdest(pos)
                THEN Jumped("jump", 1, pc, ErrInvalidJump)
                ELSE Jumped("jump", 1, pos, "")

\* opJump: the stack top is the target
OpJump ==
    IF abort
    THEN Jumped("jump", 0, pc, errStopToken)
    ELSE /\ Len(stack) >= 1
         /\ LET pos == Operand(1)
            IN  IF ~validJumpdest(pos)
                THEN Jumped("jump", 1, pc, ErrInvalidJump)
                ELSE Jumped("jump", 1, Dec64(pos), "")

\* opJumpi with the abort flag read after the operands are popped
OpJumpiPopFirst ==
    /\ Len(stack) >= 2
    /\ LET pos == Operand(1)
           cond == Operand(2)
       IN  IF abort
           THEN Jumped("jumpi", 2, pc, errStopToken)
           ELSE IF cond # 0
                THEN IF ~validJumpdest(pos)
                     THEN Jumped("jumpi", 2, pc, ErrInvalidJump)
                     ELSE Jumped("jumpi", 2, Dec64(pos), "")
                ELSE Jumped("jumpi", 2, pc, "")

\* opJumpi: the stack top is the target, the word below it the condition
OpJumpi ==
    IF abort
    THEN Jumped("jumpi", 0, pc, errStopToken)
    ELSE /\ Len(stack) >= 2
         /\ LET pos == Operand(1)
                cond == Operand(2)
            IN  IF cond # 0
                THEN IF ~validJumpdest(pos)
                     THEN Jumped("jumpi", 2, pc, ErrInvalidJump)
                     ELSE Jumped("jumpi", 2, Dec64(pos), "")
                ELSE Jumped("jumpi", 2, pc, "")

\* EVM.Cancel: an outside observer sets the abort flag
Cancel ==
    /\ abort' = TRUE
    /\ UNCHANGED <<treeVars, keys, roots, index, raw, balances, storage, stack, readOnly,
                   frameVars, monitorVars, registered, callOps, journal, last>>

(***************************************************************************)
(* Monitor: StateChanges, CallStacks                                       *)
(***************************************************************************)
\* common.Address{}
ZeroAddress == "0x0"

\* State.Eq
StateEq(s, other) ==
    /\ s.InnerTxIndex = other.InnerTxIndex
    /\ other.Account = s.Account
    /\ other.Value = s.Value

\* SaveState keeping the Account of the first state
MonitorSaveStateKeepAccount(account, stateVarName, slot, idx, newState) ==
    LET key == <<account, stateVarName, idx>>
        stateChange == IF key \in DOMAIN mChanges THEN mChanges[key] ELSE <<>>
        n == Len(stateChange)
    IN  /\ mSlotIndex' = IF slot # NilSlot /\ <<account, slot>> \notin DOMAIN mSlotIndex
                         THEN MapPut(mSlotIndex, <<account, slot>>, stateVarName)
                         ELSE mSlotIndex
        /\ mChanges' =
              IF n > 0 /\ StateEq(newState, stateChange[n])
              THEN MapPut(mChanges, key, stateChange)
              ELSE MapPut(mChanges, key, Append(stateChange, newState))
        /\ last' = [op |-> "saveState", args |-> <<account, stateVarName, idx, newState>>,
                    err |-> ""]
        /\ UNCHANGED <<treeVars, keys, roots, index, raw, balances, storage, stack, readOnly,
                       frameVars, abort, itxs, mHead, mCurrent, mCount, registered, callOps,
                       journal>>

\* StateChanges.SaveState of the monitor; newState is a State the caller built
\* for this call
MonitorSaveState(account, stateVarName, slot, idx, newState) ==
    LET key == <<account, stateVarName, idx>>
        stateChange == IF key \in DOMAIN mChanges THEN mChanges[key] ELSE <<>>
        n == Len(stateChange)
    IN  /\ mSlotIndex' = IF slot # NilSlot /\ <<account, slot>> \notin DOMAIN mSlotIndex
                         THEN MapPut(mSlotIndex, <<account, slot>>, stateVarName)
                         ELSE mSlotIndex
        /\ mChanges' =
              IF n > 0 /\ StateEq(newState, stateChange[n])
              THEN MapPut(mChanges, key, stateChange)
              ELSE IF n = 0
              THEN MapPut(mChanges, key, <<[newState EXCEPT !.Account = ZeroAddress]>>)
              ELSE MapPut(mChanges, key, Append(stateChange, newState))
        /\ last' = [op |-> "saveState", args |-> <<account, stateVarName, idx, newState>>,
                    err |-> ""]
        /\ UNCHANGED <<treeVars, keys, roots, index, raw, balances, storage, stack, readOnly,
                       frameVars, abort, itxs, mHead, mCurrent, mCount, registered, callOps,
                       journal>>

\* StateChanges.Variable of the monitor; the nil slice is the empty sequence
MonitorVariable(account, stateVarName, idx) ==
    IF <<account, stateVarName, idx>> \in DOMAIN mChanges
    THEN mChanges[<<account, stateVarName, idx>>]
    ELSE <<>>

\* what Push and Pop leave alone
StacksUntouched ==
    UNCHANGED <<treeVars, keys, roots, index, raw, balances, storage, stack, readOnly,
                frameVars, abort, mChanges, mSlotIndex, registered, callOps, journal>>

\* CallStacks.Push of an inner transaction the caller built for this call
CallStacksPush ==
    LET new == Len(itxs) + 1
    IN  /\ mHead' = IF mHead = Nil THEN new ELSE mHead
        /\ itxs' = Append(itxs, [index |-> mCount, parent |-> mCurrent])
        /\ mCurrent' = new
        /\ mCount' = mCount + 1
        /\ last' = [op |-> "push", args |-> <<>>, err |-> ""]
        /\ StacksUntouched

\* CallStacks.Pop
CallStacksPop ==
    /\ mCurrent' = IF mCurrent = Nil THEN Nil ELSE itxs[mCurrent].parent
    /\ last' = [op |-> "pop", args |-> <<>>, err |-> ""]
    /\ UNCHANGED <<itxs, mHead, mCount>>
    /\ StacksUntouched

RECURSIVE CursorAt(_, _)
\* the loop of ParentOf: from cursor up to the inner transaction of that index
CursorAt(cursor, idx) ==
    IF cursor # Nil /\ itxs[cursor].index # idx THEN CursorAt(itxs[cursor].parent, idx)
    ELSE cursor

\* CallStacks.ParentOf
CallStacksParentOf(idx) ==
    LET cursor == CursorAt(mCurrent, idx)
    IN  IF cursor = Nil THEN Nil ELSE itxs[cursor].parent

(***************************************************************************)
(* Call tree claims                                                        *)
(***************************************************************************)

\* C1: a pre-order walk of the call tree from Root() visits the calls with
\* Index 0, 1, ..., count-1 in that order, so every call entered is reachable
\* from Root(), also when a call is entered after the root call has exited.
C1_PreOrderVisitsAll ==
    IF Root = Nil THEN count = 0
    ELSE [i \in DOMAIN PreOrder(Root) |-> calls[PreOrder(Root)[i]].Index]
            = [i \in 1..count |-> i - 1]

\* C2: every call with a Parent has Parent.Index < Index and occurs exactly
\* once in Parent.Children, and every Children list has strictly increasing Index.
C2_ParentChildOrder ==
    /\ \A p \in DOMAIN calls : calls[p].Parent # Nil =>
          LET par == calls[p].Parent IN
          /\ calls[par].Index < calls[p].Index
          /\ Cardinality({i \in DOMAIN calls[par].Children : calls[par].Children[i] = p}) = 1
    /\ \A p \in DOMAIN calls : \A i, j \in DOMAIN calls[p].Children :
          i < j => calls[calls[p].Children[i]].Index < calls[calls[p].Children[j]].Index

\* a call with two children, one of which has a child of its own
C2_Witness ==
    \E p \in DOMAIN calls :
        /\ Len(calls[p].Children) >= 2
        /\ \E q \in DOMAIN calls : calls[q].Parent # Nil /\ calls[calls[q].Parent].Parent = p

\* C3: add creates one node with Index = the number of calls entered before,
\* Parent = the cursor before the add, appended as last child of that parent,
\* made the cursor and registered in lookup; Root() is the first node entered
\* and never changes; FindCall(i) is the node with Index i for i < count and
\* nil for i >= count.
C3_AddContract ==
    [][ /\ IsAdd =>
            LET new == callOps'[Len(callOps')].call IN
            /\ DOMAIN calls' = DOMAIN calls \cup {new}
            /\ new \notin DOMAIN calls
            /\ calls'[new].Index = Len(Entered)
            /\ calls'[new].Index = count
            /\ calls'[new].Parent = current
            /\ calls'[new].Data = last'.args
            /\ calls'[new].Children = <<>>
            /\ current # Nil => calls'[current] =
                    [calls[current] EXCEPT !.Children = Append(@, new)]
            /\ \A p \in DOMAIN calls : p # current => calls'[p] = calls[p]
            /\ current' = new
            /\ \A i \in {count} : FindCall(i)' = new
            /\ count' = count + 1
        /\ Root # Nil => Root' = Root
        /\ Root' = IF Entered' = <<>> THEN Nil ELSE Entered'[1]
        /\ \A i \in 0..(MaxCalls + 2) :
              IF i < count' THEN FindCall(i)' # Nil /\ calls'[FindCall(i)'].Index = i
                            ELSE FindCall(i)' = Nil
      ]_vars

\* an add made under a cursor that already has a child
C3_Witness ==
    /\ last.op = "add"
    /\ current # Nil
    /\ calls[current].Parent # Nil
    /\ Len(calls[calls[current].Parent].Children) >= 2

\* the cursor is the innermost open call; it is nil after the first add only
\* once the root call has exited; exits are LIFO; no call is exited twice
ExitDiscipline ==
    /\ current = InnermostAfter(Len(callOps))
    /\ (current = Nil /\ count > 0) =>
          \E i \in ExitPositions : callOps[i].call = Root
    \* LIFO: whatever was entered while p was open has exited before p
    /\ \A j \in ExitPositions :
          \A k \in (EnterPos(callOps[j].call) + 1)..(j - 1) :
              callOps[k].op = "add" =>
                  \E m \in (k + 1)..(j - 1) :
                      callOps[m] = [op |-> "exit", call |-> callOps[k].call]
    /\ \A i, j \in ExitPositions : callOps[i].call = callOps[j].call => i = j

\* C4: exit writes RemainingGas, Ret and Err onto the current call only and
\* moves the cursor to its parent; count, indices, lookup and Children are
\* untouched; exit with no open call changes nothing.  The cursor is always
\* the innermost call entered and not yet exited (nil when none is open, which
\* after the first add requires the root call to have exited), calls exit in
\* LIFO order and no call has its exit fields written twice.
C4_ExitContract ==
    [][ /\ IsExit /\ current = Nil => UNCHANGED treeVars
        /\ IsExit /\ current # Nil =>
            /\ calls' = [calls EXCEPT ![current] =
                    [Data |-> @.Data, Index |-> @.Index, Parent |-> @.Parent,
                     Children |-> @.Children, Ret |-> last'.args.ret,
                     RemainingGas |-> last'.args.gas, Err |-> last'.args.err]]
            /\ current' = calls[current].Parent
            /\ callOps'[Len(callOps')].call = current
            /\ UNCHANGED <<root, count, lookup>>
        /\ ExitDiscipline /\ ExitDiscipline'
      ]_vars

\* an exit of a nested call whose sibling had already failed
C4_Witness ==
    /\ last.op = "exit"
    /\ current # Nil
    /\ \E p, q \in DOMAIN calls :
          /\ p # q
          /\ calls[p].Parent = current /\ calls[q].Parent = current
          /\ calls[p].Err # "" /\ calls[q].RemainingGas = 7

\* the fan-out scenario of the specification
FanOut == <<"add", "add", "add", "exit", "exit", "add", "exit", "exit">>

\* C5: ParentOf(i) is the call that was the cursor when call i was entered
\* (nil for a top-level call or an unknown index); ChildrenOf(i) lists the
\* calls entered directly from call i, in entry order, also after they exited.
\* After enter A, enter B, enter D, exit, exit, enter C, exit, exit:
\* A=0, B=1, D=2, C=3, ParentOf(2) = B, ChildrenOf(1) = [D], ChildrenOf(0) = [B, C].
C5_ParentChildrenOf ==
    /\ \A i \in 0..(MaxCalls + 2) :
          IF i < Len(Entered)
          THEN /\ ParentOf(i) = InnermostAfter(AddPositions[i + 1] - 1)
               /\ ChildrenOf(i) = SelectSeq(Entered,
                      LAMBDA c : InnermostAfter(EnterPos(c) - 1) = Entered[i + 1])
          ELSE ParentOf(i) = Nil /\ ChildrenOf(i) = <<>>
    /\ OpKinds = FanOut =>
          LET A == Entered[1]  B == Entered[2]  D == Entered[3]  C == Entered[4] IN
          /\ calls[A].Index = 0 /\ calls[B].Index = 1
          /\ calls[D].Index = 2 /\ calls[C].Index = 3
          /\ ParentOf(2) = B
          /\ ChildrenOf(1) = <<D>>
          /\ ChildrenOf(0) = <<B, C>>

\* the fan-out scenario has run to its end
C5_Witness == OpKinds = FanOut /\ current = Nil /\ count = 4

(***************************************************************************)
(* State-change claims                                                     *)
(***************************************************************************)

\* the Changes map of node n (empty while changes is nil)
ChangesOf(n) == keys[n].changes.changes

\* the values of a sequence of journal events
ValsOf(events) == [i \in DOMAIN events |-> events[i].val]

\* the events of node n whose value append recorded, in execution order
KeptEvents(n) == SelectSeq(journal, LAMBDA e : e.key = n /\ e.kept)

RECURSIVE Ascending(_)
\* the elements of a finite set of numbers in ascending order
Ascending(S) ==
    IF S = {} THEN <<>>
    ELSE LET m == CHOOSE x \in S : \A y \in S : x <= y IN <<m>> \o Ascending(S \ {m})

\* the sequences of node n read in ascending call-index order
AscendingConcat(n) ==
    LET idxs == Ascending(DOMAIN ChangesOf(n))
    IN  Concat([i \in DOMAIN idxs |-> ChangesOf(n)[idxs[i]]])

\* C6: no Changes record of any Root, Branch or Data node holds two adjacent
\* equal values in the sequence stored under one call index.
C6_NoAdjacentEqual ==
    \A n \in DOMAIN keys : \A c \in DOMAIN ChangesOf(n) :
        \A i \in 1..(Len(ChangesOf(n)[c]) - 1) : ChangesOf(n)[c][i] # ChangesOf(n)[c][i + 1]

\* a repeated value was dropped and some sequence holds two values
C6_Witness ==
    /\ \E i \in DOMAIN journal : ~journal[i].kept
    /\ \E n \in DOMAIN keys : \E c \in DOMAIN ChangesOf(n) : Len(ChangesOf(n)[c]) >= 2

\* the sequence under each call index of each node holds the values append
\* recorded under that index, in the order they occurred
PerIndexHistory ==
    \A n \in DOMAIN keys :
        /\ DOMAIN ChangesOf(n) =
              {journal[i].callIdx : i \in {j \in DOMAIN journal : journal[j].key = n}}
        /\ \A c \in DOMAIN ChangesOf(n) :
              ChangesOf(n)[c] = ValsOf(SelectSeq(journal,
                    LAMBDA e : e.key = n /\ e.callIdx = c /\ e.kept))

\* a journaled value is recorded when nothing was recorded before it for its
\* node and call index, or when the value recorded last there differs from it
KeptWhenDifferent ==
    \A i \in DOMAIN journal :
        LET e == journal[i]
            before == SelectSeq(SubSeq(journal, 1, i - 1),
                          LAMBDA f : f.key = e.key /\ f.callIdx = e.callIdx /\ f.kept)
        IN  (before = <<>> \/ before[Len(before)].val # e.val) => e.kept

\* C7: append(callIdx, v) adds v as the last element of the sequence under
\* callIdx whenever that sequence is absent, empty or ends with another value,
\* even if v is the last value under another call index; it never modifies the
\* sequence of any other call index.
C7_AppendFrame ==
    [][ Len(journal') = Len(journal) + 1 =>
          LET e == journal'[Len(journal')]
              old == IF e.key \in DOMAIN keys THEN ChangesOf(e.key) ELSE EmptyMap
              new == keys'[e.key].changes.changes
              seq == IF e.callIdx \in DOMAIN old THEN old[e.callIdx] ELSE <<>>
          IN  /\ (seq = <<>> \/ seq[Len(seq)] # e.val) =>
                    /\ e.callIdx \in DOMAIN new
                    /\ new[e.callIdx] = Append(seq, e.val)
              /\ DOMAIN new = DOMAIN old \cup {e.callIdx}
              /\ \A c \in DOMAIN old : c # e.callIdx => new[c] = old[c]
        /\ KeptWhenDifferent' /\ PerIndexHistory'
      ]_vars

\* a value was appended that is the last value under another call index
C7_Witness ==
    /\ journal # <<>>
    /\ LET e == journal[Len(journal)] IN
          /\ e.kept
          /\ \E c \in DOMAIN ChangesOf(e.key) :
                /\ c # e.callIdx
                /\ ChangesOf(e.key)[c][Len(ChangesOf(e.key)[c])] = e.val
                /\ Len(ChangesOf(e.key)[e.callIdx]) >= 2

\* every change is recorded under the Index of the call open when it was journaled
RecordedUnderCurrent ==
    \A i \in DOMAIN journal :
        journal[i].open # Nil => journal[i].callIdx = calls[journal[i].open].Index

\* C8: every typed change is recorded under the index of the call current when
\* it was journaled, and reading a key's Changes in ascending call-index order
\* yields the journaled values in the order they occurred, also when a parent
\* journals, its child journals, and the parent journals again after the child
\* returned.
C8_ExecutionOrder ==
    /\ RecordedUnderCurrent
    /\ \A n \in DOMAIN keys :
          keys[n].nodeType # RootNode => AscendingConcat(n) = ValsOf(KeptEvents(n))

\* C8 amended: every typed change is recorded under the index of the call
\* current when it was journaled (0 when no call is open); the sequence under
\* each call index holds the values recorded under that index in the order they
\* occurred; reading in ascending call-index order yields the order of
\* occurrence when no value was recorded for the key under a smaller call index
\* after one under a larger call index.
C8_PerIndexOrder ==
    /\ RecordedUnderCurrent
    /\ \A i \in DOMAIN journal : journal[i].open = Nil => journal[i].callIdx = 0
    /\ PerIndexHistory
    /\ \A n \in DOMAIN keys :
          /\ (\A i, j \in DOMAIN KeptEvents(n) :
                  i < j => KeptEvents(n)[i].callIdx <= KeptEvents(n)[j].callIdx)
                => AscendingConcat(n) = ValsOf(KeptEvents(n))

\* a key journaled by a parent, by its child, and by the parent again after
\* the child returned
C8_Witness ==
    \E n \in DOMAIN keys :
        /\ Len(KeptEvents(n)) >= 3
        /\ KeptEvents(n)[1].callIdx = 0
        /\ KeptEvents(n)[2].callIdx = 1
        /\ KeptEvents(n)[3].callIdx = 0

RECURSIVE LabelReach(_)
\* the nodes reached from node n by following labels
LabelReach(n) ==
    {n} \cup UNION {LabelReach(keys[n].childrenIndex[l]) : l \in DOMAIN keys[n].childrenIndex}

\* C9: every storage-key node reachable from an account's Root by labels is
\* the node findKey(account, node.slot, node.offset, node.typeId) returns, also
\* when two labels are registered at one (slot, offset) under one parent and
\* when one (slot, offset, typeId) is registered under two parents.
C9_LabelNodesIndexed ==
    \A a \in DOMAIN roots : \A n \in LabelReach(roots[a]) \ {roots[a]} :
        findKey(a, keys[n].slot, keys[n].offset, keys[n].typeId) = n

\* C10: whenever saveKey(account, parent, self, offset, typeId, ...) returns
\* without error the index holds a node for (account, self, offset, typeId)
\* carrying that typeId, so a saveChange on that tuple succeeds, also when a key
\* of another typeId was registered before at the same (slot, offset) under the
\* same parent.
C10_SavedKeyIndexed ==
    (last.op = "saveKey" /\ last.err = "") =>
        LET account == last.args[1]
            self == last.args[2]
            offset == last.args[3]
            typeId == last.args[4]
            n == findKey(account, self, OffsetU8(offset), typeId)
        IN  /\ n # Nil
            /\ keys[n].typeId = typeId
            /\ saveChange(account, self, offset, typeId, CurrentCallIndex, <<1>>).err = ""

(***************************************************************************)
(* saveKey and saveChange claims                                           *)
(***************************************************************************)

\* the arguments (account, parent, self, offset, typeId, parentTypeId, label) tried
SaveKeyArgs ==
    {"a1"} \X ({NilSlot} \cup Slots) \X Slots \X Offsets \X TypeIds \X TypeIds \X Labels

\* saveKey with the arguments a on the heap ks, the roots rs and the index idx
saveKeyOn(ks, rs, idx, a) == saveKeyIn(ks, rs, idx, a[1], a[2], a[3], a[4], a[5], a[6], a[7])

\* the offset is present and its value exceeds 31
OffsetOutOfRange(offset) == offset # NilOff /\ ~(offset.hi = 0 /\ offset.lo <= 31)

\* C11: repeating a successful saveKey with identical arguments succeeds and
\* leaves roots, every node's children and label index, the flat index and all
\* Changes records as they were after the first call.
C11_SaveKeyIdempotent ==
    \A a \in SaveKeyArgs :
        LET r1 == saveKeyOn(keys, roots, index, a) IN
        r1.err = "" =>
            LET r2 == saveKeyOn(r1.keys, r1.roots, r1.index, a) IN
            /\ r2.err = ""
            /\ r2.keys = r1.keys
            /\ r2.roots = r1.roots
            /\ r2.index = r1.index

\* the last operation was a successful saveKey whose label went to a new node
\* although its position was taken, and repeating it changes nothing
C11_Witness ==
    /\ last.op = "saveKey" /\ last.err = ""
    /\ \E a \in SaveKeyArgs :
          /\ <<a[1], a[3], a[4], a[5]>> = last.args
          /\ LET r == saveKeyOn(keys, roots, index, a)
                 par == IF a[2] = NilSlot THEN MapGet(roots, a[1])
                        ELSE findKey(a[1], a[2], 0, a[6])
             IN  /\ r.err = "" /\ r.keys = keys /\ r.index = index
                 /\ par # Nil
                 /\ keys[par].childrenIndex[a[7]] # keys[par].children[<<a[3], OffsetU8(a[4])>>]

\* C12: saveKey fails with an invalid-offset error when the offset exceeds 31
\* or does not fit in 64 bits, and with an unknown-parent error when a non-root
\* parent (parentSlot, parentTypeId) is not in the index; both leave the tracer
\* state unchanged and create no Root for the account.
C12_SaveKeyErrors ==
    /\ [](\A a \in SaveKeyArgs :
            /\ OffsetOutOfRange(a[4]) =>
                  saveKeyOn(keys, roots, index, a) =
                      [err |-> "offset overflow", parent |-> Nil,
                       keys |-> keys, roots |-> roots, index |-> index]
            /\ (~OffsetOutOfRange(a[4]) /\ a[2] # NilSlot
                    /\ <<a[1], a[2], 0, a[6]>> \notin DOMAIN index) =>
                  saveKeyOn(keys, roots, index, a) =
                      [err |-> "parent key not found", parent |-> Nil,
                       keys |-> keys, roots |-> roots, index |-> index])
    /\ [][ (last'.op = "saveKey" /\ last'.err # "") =>
              /\ UNCHANGED <<keys, roots, index, raw, treeVars, balances, journal, registered>>
              /\ OffsetOutOfRange(last'.args[3]) <=> last'.err = "offset overflow"
         ]_vars

\* saveKey under an unknown parent failed for an account that has no Root
C12_Witness ==
    /\ last.op = "saveKey"
    /\ last.err = "parent key not found"
    /\ last.args[1] \notin DOMAIN roots

\* the index of the open call, 0 when none is open
OpenIndex == IF current = Nil THEN 0 ELSE calls[current].Index

\* C13: saveChange resolves the node through the flat index and journals v to
\* exactly that node's Changes under the current call index; it fails with
\* invalid offset when offset > 31, unknown account when the account has no
\* Root, unknown node when no key is registered at (slot, offset, typeId), and
\* every failure leaves all tracer state unchanged.
C13_SaveChangeContract ==
    [][ last'.op = "saveChange" =>
          LET account == last'.args[1]
              slot == last'.args[2]
              offset == last'.args[3]
              typeId == last'.args[4]
              v == last'.args[5]
              t == <<account, slot, IF offset = NilOff THEN 0 ELSE offset.lo, typeId>>
          IN  /\ UNCHANGED <<roots, index, raw, treeVars, balances, registered>>
              /\ IF OffsetOutOfRange(offset)
                    THEN last'.err = "offset overflow" /\ UNCHANGED keys
                 ELSE IF account \notin DOMAIN roots
                    THEN last'.err = "unknown account" /\ UNCHANGED keys
                 ELSE IF t \notin DOMAIN index
                    THEN last'.err = "storage key node not found" /\ UNCHANGED keys
                 ELSE LET n == index[t] IN
                      /\ last'.err = ""
                      /\ DOMAIN keys' = DOMAIN keys
                      /\ \A m \in DOMAIN keys : m # n => keys'[m] = keys[m]
                      /\ keys'[n] = [keys[n] EXCEPT !.changes = keys'[n].changes,
                                                    !.nodeType = keys'[n].nodeType]
                      /\ OpenIndex \in DOMAIN keys'[n].changes.changes
                      /\ LET seq == keys'[n].changes.changes[OpenIndex]
                         IN  seq # <<>> /\ seq[Len(seq)] = v
                      /\ \A c \in DOMAIN ChangesOf(n) :
                            c # OpenIndex => keys'[n].changes.changes[c] = ChangesOf(n)[c]
      ]_vars

\* saveChange failed on a tuple of another typeId after it had journaled a
\* value to the registered node inside the call with index 1
C13_Witness ==
    /\ last.op = "saveChange"
    /\ last.err = "storage key node not found"
    /\ "a1" \in DOMAIN roots
    /\ \E n \in DOMAIN keys : 1 \in DOMAIN ChangesOf(n)

\* the label paths tried in the state-variable specification
VPaths == UNION {[1..n -> Labels] : n \in 1..(VMaxKeys - 1)}

\* C14: for every key registered by successful saveKey calls along a label
\* path at (slot, offset, typeId), Variable(account, name, indices...) and
\* Slot(account, slot, offset, typeId) return the same Changes record, so a
\* value journaled by saveChange at that tuple is visible through the path;
\* Variable returns none when a step of the path is unregistered.
C14_VariableSlotAgree ==
    \A a \in Accounts : \A p \in VPaths :
        LET n == FindKeyIndices(a, p[1], Tail(p)) IN
        IF n = Nil
        THEN Variable(a, p[1], Tail(p)) = NilChanges
        ELSE Variable(a, p[1], Tail(p)) =
                 Slot(a, keys[n].slot, U256(0, keys[n].offset), keys[n].typeId).changes

\* the label paths tried in the key specification
KPaths == UNION {[1..n -> Labels] : n \in 1..(MaxKeys - 1)}

\* C15: IndicesOfChanges(account, name, indices...) returns exactly the labels
\* that successful saveKey calls registered directly under the node at that
\* label path, and nil when the path does not exist.
C15_IndicesOfChanges ==
    \A a \in Accounts : \A p \in KPaths :
        LET n == FindKeyIndices(a, p[1], Tail(p))
            r == IndicesOfChanges(a, p[1], Tail(p))
        IN  IF n = Nil
            THEN r.isNil
            ELSE ~r.isNil /\ r.labels = {l \in Labels : <<n, l>> \in registered}

\* one variable has a label registered under it and no label under that one,
\* and another variable name is unregistered
C15_Witness ==
    \E l1, l2, l3 \in Labels :
        /\ l3 \in IndicesOfChanges("a1", l1, <<>>).labels
        /\ IndicesOfChanges("a1", l1, <<l3>>) = [isNil |-> FALSE, labels |-> {}]
        /\ IndicesOfChanges("a1", l2, <<>>).isNil

\* node n has received a journaled value
Journaled(n) == \E i \in DOMAIN journal : journal[i].key = n

\* C16: a non-root storage key has type Branch exactly when it has never
\* received a journaled value (changes is nil) and type Data exactly when it
\* has; Branch becomes Data on the first journaled value, a Data node never
\* becomes Branch again, and a Root node stays Root after balance changes.
C16_NodeTypes ==
    /\ [](\A n \in DOMAIN keys :
            IF \E a \in DOMAIN roots : roots[a] = n
            THEN keys[n].nodeType = RootNode
            ELSE /\ keys[n].nodeType \in {BranchNode, DataNode}
                 /\ keys[n].nodeType = BranchNode <=> ~Journaled(n)
                 /\ keys[n].nodeType = BranchNode <=> keys[n].changes.isNil
                 /\ keys[n].nodeType = DataNode <=> keys[n].changes.changes # EmptyMap)
    /\ [][ \A n \in DOMAIN keys :
              /\ keys[n].nodeType = DataNode => keys'[n].nodeType = DataNode
              /\ keys[n].nodeType = RootNode => keys'[n].nodeType = RootNode
              /\ (keys[n].nodeType = BranchNode /\ keys'[n].nodeType = DataNode) =>
                    /\ Len(journal') = Len(journal) + 1
                    /\ journal'[Len(journal')].key = n
         ]_vars

\* a Root that holds balance changes next to a Data node
C16_Witness ==
    /\ \E a \in DOMAIN roots :
          /\ keys[roots[a]].nodeType = RootNode
          /\ ~keys[roots[a]].changes.isNil
    /\ \E n \in DOMAIN keys : keys[n].nodeType = DataNode

\* the sequence s is the beginning of the sequence t
IsPrefix(s, t) == Len(s) <= Len(t) /\ SubSeq(t, 1, Len(s)) = s

\* the label paths tried in the all-operations specification
OPaths == UNION {[1..n -> Labels] : n \in 1..2}

\* C17: no tracer operation removes or replaces an existing storage-key node,
\* index entry, label binding or change-history entry: every node found by a
\* lookup is still found by the same lookup, and every Changes sequence is an
\* extension of its earlier value.
C17_NothingRemoved ==
    [][ /\ Len(keys') >= Len(keys)
        /\ \A n \in DOMAIN keys :
              /\ keys'[n].slot = keys[n].slot
              /\ keys'[n].offset = keys[n].offset
              /\ keys'[n].typeId = keys[n].typeId
              /\ keys'[n].data = keys[n].data
              /\ \A q \in DOMAIN keys[n].children :
                    q \in DOMAIN keys'[n].children /\ keys'[n].children[q] = keys[n].children[q]
              /\ \A l \in DOMAIN keys[n].childrenIndex :
                    /\ l \in DOMAIN keys'[n].childrenIndex
                    /\ keys'[n].childrenIndex[l] = keys[n].childrenIndex[l]
              /\ ~keys[n].changes.isNil => ~keys'[n].changes.isNil
              /\ \A c \in DOMAIN ChangesOf(n) :
                    /\ c \in DOMAIN keys'[n].changes.changes
                    /\ IsPrefix(ChangesOf(n)[c], keys'[n].changes.changes[c])
        /\ \A a \in DOMAIN roots : a \in DOMAIN roots' /\ roots'[a] = roots[a]
        /\ \A t \in DOMAIN index : t \in DOMAIN index' /\ index'[t] = index[t]
        /\ \A a \in Accounts, slot \in Slots, typeId \in TypeIds : \A found \in {findKey(a, slot, 0, typeId)} :
              found # Nil => findKey(a, slot, 0, typeId)' = found
        /\ \A a \in Accounts, p \in OPaths : \A found \in {FindKeyIndices(a, p[1], Tail(p))} :
              found # Nil => FindKeyIndices(a, p[1], Tail(p))' = found
      ]_vars

\* a second key was registered at an indexed tuple, after values were journaled
\* and written raw and a call had exited
C17_Witness ==
    /\ \E t \in DOMAIN index : \E n \in DOMAIN keys :
          /\ n # index[t]
          /\ <<keys[n].slot, keys[n].offset, keys[n].typeId>> = <<t[2], t[3], t[4]>>
    /\ \E n \in DOMAIN keys : \E c \in DOMAIN ChangesOf(n) : Len(ChangesOf(n)[c]) >= 1
    /\ raw # EmptyMap
    /\ ExitPositions # {}

\* C18: after a call that journals typed writes and exits with a non-nil
\* error, the typed Changes are what they were before the call: no entry
\* remains under the failed call's index and Variable for a variable written
\* only in that call is empty, while the call tree still holds the failed call
\* with Err set.
C18_RevertDiscardsWrites ==
    \A c \in DOMAIN calls :
        (calls[c].Err # "" /\ calls[c].Index >= 1) =>
            /\ \A n \in DOMAIN keys :
                  keys[n].nodeType # RootNode => calls[c].Index \notin DOMAIN ChangesOf(n)
            /\ \A p \in OPaths :
                  (\A i \in DOMAIN journal :
                        journal[i].key = FindKeyIndices("a1", p[1], Tail(p))
                            => journal[i].open = c)
                      => Variable("a1", p[1], Tail(p)).changes = EmptyMap

\* C19: after SaveRawStateChange(account, slot, val) the raw log holds val at
\* (account, slot, current call index), replacing any earlier word at that
\* triple and leaving every other triple unchanged; no other operation writes
\* the raw log, so it maps each triple to the last word saved there.
C19_RawLastWord ==
    [][ IF last'.op = "saveRaw"
        THEN LET t == <<last'.args[1], last'.args[2], OpenIndex>> IN
             /\ DOMAIN raw' = DOMAIN raw \cup {t}
             /\ raw'[t] = last'.args[3]
             /\ \A u \in DOMAIN raw : u # t => raw'[u] = raw[u]
             /\ UNCHANGED <<treeVars, keys, roots, index, balances>>
        ELSE UNCHANGED raw
      ]_vars

\* the word saved last stands at its triple, next to another word saved under
\* another call index
C19_Witness ==
    /\ last.op = "saveRaw"
    /\ raw[<<last.args[1], last.args[2], OpenIndex>>] = last.args[3]
    /\ \E u \in DOMAIN raw : u[3] # OpenIndex /\ raw[u] # last.args[3]

\* C20: every SSTORE executed in a writable frame records the written word in
\* the tracer's raw slot log under (active account, slot, current call index).
C20_SstoreInRawLog ==
    (last.op = "sstore" /\ last.err = "") =>
        LET t == <<last.args[1], last.args[2], OpenIndex>>
        IN  t \in DOMAIN raw /\ raw[t] = Bytes32(last.args[3])

(***************************************************************************)
(* Transfer and opcode claims                                              *)
(***************************************************************************)

\* the balance sequence of the account under call index idx on the heap ks
\* with the roots rs
BalanceSeq(ks, rs, account, idx) ==
    IF account \in DOMAIN rs /\ idx \in DOMAIN ks[rs[account]].changes.changes
    THEN ks[rs[account]].changes.changes[idx]
    ELSE <<>>

\* v put at the end of seq unless seq ends with v
AppendNew(seq, v) == IF seq # <<>> /\ seq[Len(seq)] = v THEN seq ELSE Append(seq, v)

\* the key, call index and value of the journal events from position n on
EventsFrom(jr, n) ==
    [i \in 1..(Len(jr) - n) |-> <<jr[n + i].key, jr[n + i].callIdx, jr[n + i].val>>]

\* C21: for every TransferWithRecord(from, to, amount) with from # to and
\* sufficient balance each of the two accounts' balance histories gains exactly
\* two entries under the current call index, before then after, with
\* from-after = from-before - amount and to-after = to-before + amount, for
\* every amount including 0 and for a transfer that follows an earlier one in
\* the same call.
C21_FourBalanceEntries ==
    [][ (last'.op = "transfer" /\ last'.args[1] # last'.args[2]) =>
          LET from == last'.args[1]
              to == last'.args[2]
              amount == last'.args[3]
          IN  /\ BalanceSeq(keys', roots', from, OpenIndex) =
                    BalanceSeq(keys, roots, from, OpenIndex)
                        \o <<Bytes(balances[from]), Bytes(balances[from] - amount)>>
              /\ BalanceSeq(keys', roots', to, OpenIndex) =
                    BalanceSeq(keys, roots, to, OpenIndex)
                        \o <<Bytes(balances[to]), Bytes(balances[to] + amount)>>
      ]_vars

\* C21 amended: the transfer journals four balance values under the current
\* call index, from-before, to-before, from-after, to-after in that order, with
\* from-after = from-before - amount and to-after = to-before + amount; each
\* value is appended to its account's history under that index unless it
\* equals the value recorded last there, so a history gains two entries only
\* when amount # 0 and its last entry differs from the balance before.
C21_FourBalanceEvents ==
    [][ (last'.op = "transfer" /\ last'.args[1] # last'.args[2]) =>
          LET from == last'.args[1]
              to == last'.args[2]
              amount == last'.args[3]
          IN  /\ balances'[from] = balances[from] - amount
              /\ balances'[to] = balances[to] + amount
              /\ Len(journal') = Len(journal) + 4
              /\ SubSeq(journal', 1, Len(journal)) = journal
              /\ EventsFrom(journal', Len(journal)) =
                    << <<roots'[from], OpenIndex, Bytes(balances[from])>>,
                       <<roots'[to], OpenIndex, Bytes(balances[to])>>,
                       <<roots'[from], OpenIndex, Bytes(balances[from] - amount)>>,
                       <<roots'[to], OpenIndex, Bytes(balances[to] + amount)>> >>
              /\ BalanceSeq(keys', roots', from, OpenIndex) =
                    AppendNew(AppendNew(BalanceSeq(keys, roots, from, OpenIndex),
                                        Bytes(balances[from])),
                              Bytes(balances[from] - amount))
              /\ BalanceSeq(keys', roots', to, OpenIndex) =
                    AppendNew(AppendNew(BalanceSeq(keys, roots, to, OpenIndex),
                                        Bytes(balances[to])),
                              Bytes(balances[to] + amount))
              /\ \A a \in DOMAIN roots : \A c \in DOMAIN ChangesOf(roots[a]) :
                    c # OpenIndex => keys'[roots[a]].changes.changes[c] = ChangesOf(roots[a])[c]
      ]_vars

\* a transfer of a non-zero amount inside the call with index 1 followed an
\* earlier transfer in that call: its two balances before were recorded already
\* and its two balances after were appended
C21_Witness ==
    /\ last.op = "transfer" /\ last.args[1] # last.args[2] /\ last.args[3] # 0
    /\ OpenIndex = 1
    /\ Len(journal) = 8
    /\ ~journal[5].kept /\ ~journal[6].kept /\ journal[7].kept /\ journal[8].kept

\* the journal opcodes
JournalOps ==
    {"vjournal", "rjournal", "vssvar", "rssvar",
     "rivjournal", "vivjournal", "rirjournal", "virjournal"}

\* the opcodes that journal a change, the others register a key
ChangeOps == {"vjournal", "rjournal"}

\* the opcodes that load a label from memory
MemoryOps == {"vssvar", "rssvar", "rivjournal", "rirjournal"}

\* the number of operands the instruction set gives each journal opcode
OperandCount(op) ==
    CASE op \in {"vjournal", "vssvar"} -> 4
      [] op = "rjournal" -> 2
      [] op = "rssvar" -> 3
      [] op \in {"rivjournal", "vivjournal"} -> 6
      [] op \in {"rirjournal", "virjournal"} -> 5

\* a step of the frame is a journal opcode: each of them pops
OpcodeStep == stack' # stack

TracerResult(op, a) ==
    IF op \in ChangeOps
    THEN saveChange(a[1], a[2], a[3], a[4], CurrentCallIndex, a[5]).err
    ELSE saveKeyOn(keys, roots, index, a).err

\* C23: a journal opcode that emitted an event returns what the tracer
\* returned for it: the tracer's error when the event was rejected (invalid
\* offset, unknown account, unknown node, unknown parent), which leaves the
\* tracer as it was, and no error when the event was accepted.
C23_TracerErrorReturned ==
    [][ (OpcodeStep /\ last'.emitted) =>
          /\ last'.err = TracerResult(last'.op, last'.args)
          /\ last'.err \in {"", "offset overflow", "unknown account",
                            "storage key node not found", "parent key not found"}
          /\ last'.err # "" => UNCHANGED <<keys, roots, index, registered, journal>>
      ]_vars

\* an indexed-key opcode returned the tracer's complaint about its parent
C23_Witness ==
    /\ last.op \in {"rivjournal", "vivjournal", "rirjournal", "virjournal"}
    /\ last.emitted
    /\ last.err = "parent key not found"

\* the key of contract a1 at (slot, offset, typeId) is registered
Registered(slot, offset, typeId) ==
    /\ "a1" \in DOMAIN roots
    /\ findKey("a1", slot, offset, typeId) # Nil

\* the step journals val to the key at (slot, offset, typeId) under the
\* current call index and returns no error
Records(slot, offset, typeId, val) ==
    /\ last'.err = ""
    /\ Len(journal') = Len(journal) + 1
    /\ journal'[Len(journal')].key = findKey("a1", slot, offset, typeId)
    /\ journal'[Len(journal')].callIdx = CurrentCallIndex
    /\ journal'[Len(journal')].val = val

\* C24: VJOURNAL(slot, offset, typeSize, typeId) records under (slot, offset,
\* typeId) at the current call index exactly typeSize bytes of the word stored
\* in the slot, namely the bytes at byte position offset counted from the most
\* significant end of the word.
C24_WindowFromTop ==
    [][ (OpcodeStep /\ last'.op = "vjournal" /\ Len(stack) >= 4) =>
          LET slot == Operand(1)
              offset == Operand(2)
              typeSize == Operand(3)
              typeId == Bytes32(Operand(4))
              word == GetState(storage, "a1", Bytes32(slot))
          IN  (offset <= 31 /\ offset + typeSize <= 32 /\ Registered(slot, offset, typeId)) =>
                  Records(slot, offset, typeId, SubSeq(word, offset + 1, offset + typeSize))
      ]_vars

\* C24 amended: VJOURNAL records under (slot, offset, typeId) at the current
\* call index the typeSize bytes of the stored word that end offset bytes
\* before its least significant end, which is the window SLOAD's word holds the
\* packed value in; it returns an error and records nothing when offset > 31
\* or typeSize > 32 or the key is not registered, and it panics and records
\* nothing when offset + typeSize > 32.
C24_WindowFromBottom ==
    [][ (OpcodeStep /\ last'.op = "vjournal" /\ Len(stack) >= 4) =>
          LET slot == Operand(1)
              offset == Operand(2)
              typeSize == Operand(3)
              typeId == Bytes32(Operand(4))
              word == GetState(storage, "a1", Bytes32(slot))
          IN  IF offset > 31
              THEN last'.err = "offset out of range" /\ UNCHANGED <<keys, journal>>
              ELSE IF typeSize > 32
              THEN last'.err = "type size out of range" /\ UNCHANGED <<keys, journal>>
              ELSE IF offset + typeSize > 32
              THEN last'.err = "panic: slice bounds out of range" /\ UNCHANGED <<keys, journal>>
              ELSE IF ~Registered(slot, offset, typeId)
              THEN last'.err \in {"unknown account", "storage key node not found"}
                    /\ UNCHANGED <<keys, journal>>
              ELSE Records(slot, offset, typeId,
                           SubSeq(word, 32 - offset - typeSize + 1, 32 - offset))
      ]_vars

\* VJOURNAL recorded the byte before the last of a word whose bytes differ,
\* with offset 1 and typeSize 1
C24_Witness ==
    /\ last.op = "vjournal"
    /\ last.err = ""
    /\ last.args[3] = ToU256(1)
    /\ last.args[5] = <<31>>
    /\ journal # <<>>
    /\ journal[Len(journal)].val = <<31>>

\* C25: for a slot word in short form (low bit 0, low byte 2 * L with L < 32)
\* RJOURNAL records exactly the L most significant bytes of the word as the
\* value, for every such word, those with L = 0, L = 31 and leading zero bytes
\* included.
C25_ShortValue ==
    [][ (OpcodeStep /\ last'.op = "rjournal") =>
          LET slot == Operand(1)
              typeId == Bytes32(Operand(2))
              word == GetState(storage, "a1", Bytes32(slot))
              L == word[32] \div 2
          IN  (word[32] % 2 = 0 /\ L < 32 /\ Registered(slot, 0, typeId)) =>
                  Records(slot, 0, typeId, SubSeq(word, 1, L))
      ]_vars

RECURSIVE WordsFrom(_, _, _)
\* the n storage words of contract a1 from the key first on
WordsFrom(db, first, n) ==
    IF n = 0 THEN <<>>
    ELSE WordsFrom(db, first, n - 1) \o GetState(db, "a1", Bytes32(first + n - 1))

\* C26: for a slot word in long form (low bit 1, word = 2 * L + 1 with
\* L >= 32) RJOURNAL records the L bytes of the value read from the words
\* keccak256(slot) + 0, + 1, ..., + ceil(L / 32) - 1, in that order.
C26_LongValue ==
    [][ (OpcodeStep /\ last'.op = "rjournal") =>
          LET slot == Operand(1)
              typeId == Bytes32(Operand(2))
              word == GetState(storage, "a1", Bytes32(slot))
              small == \A i \in 1..28 : word[i] = 0
              L == IntOf(SubSeq(word, 29, 32)) \div 2
          IN  (word[32] % 2 = 1 /\ small /\ L >= 32 /\ Registered(slot, 0, typeId)) =>
                  Records(slot, 0, typeId,
                          SubSeq(WordsFrom(storage, Keccak256(Bytes32(slot)), (L + 31) \div 32),
                                 1, L))
      ]_vars

\* the header of a slot word contradicts the solidity layout: low bit 0 with a
\* length of 32 or more, or low bit 1 with a length below 32
Inconsistent(word) ==
    \/ word[32] % 2 = 0 /\ word[32] \div 2 >= 32
    \/ word[32] % 2 = 1 /\ (\A i \in 1..31 : word[i] = 0) /\ word[32] \div 2 < 32

\* C27: RJOURNAL returns the storage encoding error, with nothing recorded in
\* the tracer, exactly when the length header contradicts the solidity layout;
\* every other header, short form with length 31 and long form with length 32
\* included, gets past the check.
C27_EncodingError ==
    [][ (OpcodeStep /\ last'.op = "rjournal") =>
          LET word == GetState(storage, "a1", Bytes32(Operand(1)))
          IN  /\ last'.err = "storage encoding error" <=> Inconsistent(word)
              /\ Inconsistent(word) =>
                    /\ ~last'.emitted
                    /\ UNCHANGED <<keys, roots, index, registered, journal, raw>>
      ]_vars

\* RJOURNAL accepted a short value of 31 bytes and recorded it
C27_Witness ==
    /\ last.op = "rjournal"
    /\ last.err = ""
    /\ last.emitted
    /\ Len(last.args[5]) = 31
    /\ GetState(storage, "a1", Bytes32(1))[32] = 62

\* the memory ends before the n bytes that follow the length word at p, n
\* being that word
MemoryShort(p) ==
    \/ Len(memory) < p + 32
    \/ \E i \in 1..24 : memory[p + i] # 0
    \/ Len(memory) < p + 32 + IntOf(SubSeq(memory, p + 25, p + 32))

\* C28: an opcode that loads its label with loadDataFromMem(memPtr, mem) fails
\* with the memory error, before any tracer call and with the memory as it
\* was, whenever the memory is shorter than memPtr + 32 + n, n being the word
\* stored at memPtr.
C28_ShortMemoryRejected ==
    [][ (OpcodeStep /\ last'.op \in MemoryOps) =>
          LET memPtr == IF last'.op \in {"vssvar", "rssvar"} THEN Operand(1) ELSE Operand(3)
          IN  MemoryShort(memPtr) =>
                  /\ last'.err = "mem data too long"
                  /\ ~last'.emitted
                  /\ memory' = memory
      ]_vars

\* the instructions that write the StateDB whatever their operands
WriteOps == {"sstore", "log", "create", "create2", "selfdestruct"}

\* the call instructions
CallOps == {"call", "callcode", "delegatecall", "staticcall"}

\* C29: in read-only mode SSTORE, LOG0..LOG4, CREATE, CREATE2 and SELFDESTRUCT
\* fail with the write protection error before popping any operand and with
\* the StateDB as it was, and CALL with a non-zero value fails with that error
\* without the callee being invoked; a CALL with zero value is not rejected
\* and is handed to the EVM.
C29_ReadOnly ==
    [][ readOnly =>
          /\ last'.op \in WriteOps =>
                /\ last'.err = ErrWriteProtection
                /\ UNCHANGED <<stack, storage, balances, logs, suicided, invoked>>
          /\ (last'.op = "call" /\ stack' # stack) =>
                IF Operand(3) # 0
                THEN /\ last'.err = ErrWriteProtection
                     /\ UNCHANGED <<storage, balances, logs, suicided, invoked>>
                ELSE /\ last'.err = ""
                     /\ Len(invoked') = Len(invoked) + 1
                     /\ invoked'[Len(invoked')].kind = "call"
                     /\ invoked'[Len(invoked')].value = 0
      ]_vars

\* a read-only frame refused a CALL that carried value, no callee was invoked
C29_Witness ==
    /\ readOnly
    /\ last.op = "call"
    /\ last.args[2] # 0
    /\ last.err = ErrWriteProtection
    /\ invoked = <<>>

\* C30: CALL, CALLCODE, DELEGATECALL and STATICCALL that hand a call to the
\* EVM return no error whatever the callee returned: they push 1 when the
\* callee returned no error and 0 otherwise, add the returned gas to the
\* frame's gas, copy the callee's return data into the memory only when the
\* callee returned no error or ErrExecutionReverted, and keep the return data.
C30_CalleeFailureContained ==
    [][ (last'.op \in CallOps /\ Len(invoked') = Len(invoked) + 1) =>
          LET n == IF last'.op \in {"call", "callcode"} THEN 7 ELSE 6
              r == invoked'[Len(invoked')]
              retOffset == Operand(n - 1)
              retSize == Operand(n)
          IN  /\ last'.err = ""
              /\ stack' = Append(SubSeq(stack, 1, Len(stack) - n),
                                 IF r.err = "" THEN 1 ELSE 0)
              /\ gas' = gas + r.returnGas
              /\ returnData' = r.ret
              /\ IF r.err \in {"", ErrExecutionReverted}
                 THEN /\ \A i \in 1..Len(r.ret) :
                            i <= retSize => memory'[retOffset + i] = r.ret[i]
                      /\ \A i \in 1..Len(memory) :
                            (i <= retOffset \/ i > retOffset + retSize) => memory'[i] = memory[i]
                 ELSE memory' = memory
      ]_vars

\* a call instruction went on after its callee ran out of gas: it pushed 0,
\* kept the memory and returned no error
C30_Witness ==
    /\ last.op \in CallOps
    /\ last.err = ""
    /\ invoked # <<>>
    /\ invoked[Len(invoked)].err = "out of gas"
    /\ stack # <<>>
    /\ stack[Len(stack)] = 0
    /\ memory = <<7, 7>>

(***************************************************************************)
(* Jump claims                                                             *)
(***************************************************************************)
\* the step is an execution of the jump instruction op
JumpStep(op) == last'.op = op /\ <<stack, last>>' # <<stack, last>>

\* the jump to pos was made, or refused with pc left alone
JumpTaken(pos) ==
    IF validJumpdest(pos)
    THEN last'.err = "" /\ Inc64(pc') = pos
    ELSE last'.err = ErrInvalidJump /\ pc' = pc

\* the outcome of JUMP and JUMPI as the target, the condition and the
\* JUMPDEST analysis alone determine it
JumpOutcome ==
    /\ JumpStep("jump") => JumpTaken(Operand(1))
    /\ JumpStep("jumpi") =>
           IF Operand(2) # 0 THEN JumpTaken(Operand(1)) ELSE last'.err = "" /\ pc' = pc

\* C31 as stated: every JUMP, and every JUMPI with a non-zero condition, to a
\* target that is not a valid JUMPDEST fails with InvalidJump and leaves pc
\* unchanged, and to a valid target sets pc so that the next instruction
\* executed is the target, whatever else holds.
C31_JumpOutcomeAlways == [][Len(stack) >= 2 => JumpOutcome]_vars

\* C31: with the abort flag clear, JUMP, and JUMPI with a non-zero condition,
\* to a target that is not a valid JUMPDEST fails with InvalidJump and leaves
\* pc unchanged; to a valid target it sets pc so that the increment of the
\* interpreter loop lands on the target; JUMPI with a zero condition leaves pc
\* unchanged without error.
C31_JumpOutcome == [][~abort => JumpOutcome]_vars

C31_Witness ==
    /\ last.op = "jump"
    /\ last.err = ""
    /\ pc = -1
    /\ ~abort

\* C32: with the abort flag set JUMP and JUMPI return the Stop sentinel with
\* no operand popped, pc unchanged and the target not validated; with the
\* flag clear they pop their operands and do not return the sentinel.
C32_AbortBeforeJump ==
    [][\A op \in {"jump", "jumpi"} :
           JumpStep(op) =>
               IF abort
               THEN last'.err = errStopToken /\ UNCHANGED <<stack, pc>>
               ELSE /\ last'.err # errStopToken
                    /\ stack' = Pop(IF op = "jump" THEN 1 ELSE 2)]_vars

C32_Witness ==
    /\ abort
    /\ last.op = "jumpi"
    /\ last.err = errStopToken
    /\ Len(stack) >= 2
    /\ Operand(2) # 0
    /\ ~validJumpdest(Operand(1))

(***************************************************************************)
(* Selfdestruct, window, coalescing, call-index and binding claims         *)
(***************************************************************************)
\* the last balance journaled for account under the call index idx is b
BalanceJournaled(ks, rs, account, idx, b) ==
    LET seq == BalanceSeq(ks, rs, account, idx)
    IN  seq # <<>> /\ seq[Len(seq)] = Bytes(b)

\* C33: SELFDESTRUCT of the contract a1 in a writable frame adds its whole
\* balance to the beneficiary, marks a1 suicided, terminates with the Stop
\* sentinel, and journals the resulting balances of a1 and of the beneficiary
\* in the tracer's balance histories under the current call index.
C33_SelfdestructJournaled ==
    [][(last'.op = "selfdestruct" /\ stack' # stack) =>
          LET beneficiary == ToAddr(Operand(1))
          IN  /\ balances' = Suicide(AddBalance(balances, beneficiary, balances["a1"]), "a1")
              /\ "a1" \in suicided'
              /\ last'.err = errStopToken
              /\ BalanceJournaled(keys', roots', "a1", OpenIndex, balances'["a1"])
              /\ BalanceJournaled(keys', roots', beneficiary, OpenIndex,
                                  balances'[beneficiary])]_vars

\* C37: for every operand pair VJOURNAL's range checks accept (offset <= 31,
\* typeSize <= 32) the window start = 32 - offset - typeSize, end = 32 - offset
\* satisfies 0 <= start <= end <= 32 in uint64 arithmetic, so the slice of the
\* stored word is in bounds and the opcode ends with a result or an error, not
\* with a panic.  A negative difference here is the uint64 2^64 + start, which
\* lies above end.
C37_WindowInBounds ==
    [][(OpcodeStep /\ last'.op = "vjournal" /\ Len(stack) >= 4
            /\ Operand(2) <= 31 /\ Operand(3) <= 32) =>
          LET start == 32 - Operand(2) - Operand(3)
              end == 32 - Operand(2)
          IN  /\ 0 <= start
              /\ start <= end
              /\ end <= 32
              /\ last'.err # "panic: slice bounds out of range"]_vars

\* C38: every journaled write to a storage key whose value differs from the
\* value journaled immediately before it for that key, under whatever call
\* index, adds an entry to the key's Changes: a parent's X journaled again after
\* its child journaled Y is recorded.
C38_OnlyNoOpsCoalesced ==
    \A i \in DOMAIN journal :
        LET e == journal[i]
            before == SelectSeq(SubSeq(journal, 1, i - 1), LAMBDA f : f.key = e.key)
        IN  (before = <<>> \/ before[Len(before)].val # e.val) => e.kept

\* the Index of the innermost call the operation history leaves open, 0 when
\* it leaves none
InnermostOpenIndex ==
    LET p == InnermostAfter(Len(callOps))
    IN  IF p = Nil THEN 0 ELSE calls[p].Index

\* C39: CurrentCallIndex is the Index of the innermost open call and 0 when no
\* call is open; the root call has Index 0; every state and balance value and
\* every raw word is journaled under that index, so under 0 before the first
\* call is entered and after the root call has exited.
C39_IndexZeroOutsideCalls ==
    [][/\ CurrentCallIndex = InnermostOpenIndex
       /\ current = Nil => CurrentCallIndex = 0
       /\ root # Nil => calls[root].Index = 0
       /\ \A i \in (Len(journal) + 1)..Len(journal') :
             journal'[i].callIdx = InnermostOpenIndex
       /\ last'.op = "saveRaw" =>
             LET k == <<last'.args[1], last'.args[2], InnermostOpenIndex>>
             IN  k \in DOMAIN raw' /\ raw'[k] = last'.args[3]]_vars

\* a balance was journaled after the root call exited, a typed change inside
\* the root call, both under index 0, and a raw word is held under index 0
C39_Witness ==
    /\ current = Nil
    /\ root # Nil
    /\ \E i, j \in DOMAIN journal :
          /\ i < j
          /\ journal[i].open = root
          /\ journal[i].callIdx = 0
          /\ journal[j].open = Nil
          /\ journal[j].callIdx = 0
    /\ \E k \in DOMAIN raw : k[3] = 0

\* the children a node holds in its position map or its label index
BoundChildren(p) ==
    {keys[p].children[q] : q \in DOMAIN keys[p].children}
        \cup {keys[p].childrenIndex[l] : l \in DOMAIN keys[p].childrenIndex}

\* the node of S put on the heap first
FirstOf(S) == CHOOSE n \in S : \A m \in S : n <= m

\* C40: within one parent a label stays bound to the first child registered
\* with it and a (slot, offset) position to the first child registered at it,
\* whatever saveKey later reuses the label with another slot or the position
\* with another label, and Variable by a label of a Root returns the Changes
\* of that first child.
C40_FirstBindingKept ==
    /\ \A p \in DOMAIN keys :
          /\ \A l \in DOMAIN keys[p].childrenIndex :
                keys[p].childrenIndex[l] = FirstOf({n \in BoundChildren(p) : keys[n].data = l})
          /\ \A q \in DOMAIN keys[p].children :
                keys[p].children[q] =
                    FirstOf({n \in BoundChildren(p) : <<keys[n].slot, keys[n].offset>> = q})
    /\ \A a \in DOMAIN roots : \A l \in DOMAIN keys[roots[a]].childrenIndex :
          Variable(a, l, <<>>) =
              keys[FirstOf({n \in BoundChildren(roots[a]) : keys[n].data = l})].changes

\* under one parent a label was reused with another slot and a position with
\* another label, after a value was journaled to the first child of the label
C40_Witness ==
    \E p \in DOMAIN keys : \E c, n, m \in BoundChildren(p) :
        /\ c < n
        /\ keys[n].data = keys[c].data
        /\ keys[n].slot # keys[c].slot
        /\ ~keys[c].changes.isNil
        /\ m # c
        /\ <<keys[m].slot, keys[m].offset>> = <<keys[c].slot, keys[c].offset>>
        /\ keys[m].data # keys[c].data

(***************************************************************************)
(* Monitor claims                                                          *)
(***************************************************************************)
\* C34: the first state recorded for an (account, variable, index) has the zero
\* address as Account and the InnerTxIndex and Value passed; a later state
\* whose Value differs from the last one recorded is appended with the Account
\* passed to SaveState, so a variable journaled with v0 and then with another
\* v1 reads [v0, v1] through Variable; recorded states are never removed.
C34_FirstStateZeroAccount ==
    [][last'.op = "saveState" =>
          LET key == <<last'.args[1], last'.args[2], last'.args[3]>>
              s == last'.args[4]
              before == MonitorVariable(key[1], key[2], key[3])
              after == mChanges'[key]
          IN  /\ before = <<>> =>
                    after = <<[Account |-> ZeroAddress, InnerTxIndex |-> s.InnerTxIndex,
                               Value |-> s.Value]>>
              /\ (before # <<>> /\ before[Len(before)].Value # s.Value) =>
                    after = Append(before, s)
              /\ IsPrefix(before, after)
              /\ \A k \in DOMAIN mChanges' : mChanges'[k][1].Account = ZeroAddress]_vars

\* Variable reads v0 recorded with the zero address, then v1 with the sender
C34_Witness ==
    LET states == MonitorVariable("a1", "a", "")
    IN  /\ Len(states) = 2
        /\ states[1] = [Account |-> ZeroAddress, InnerTxIndex |-> 0, Value |-> <<1>>]
        /\ states[2] = [Account |-> "a2", InnerTxIndex |-> 0, Value |-> <<2>>]

\* C35: a SaveState with the (Account, InnerTxIndex, Value) of the save made
\* just before it for the same (account, variable, index) records nothing, also
\* when the two are the first saves of the key and Account is not the zero
\* address.
C35_RepeatedSaveSkipped ==
    [][(last.op = "saveState" /\ last'.op = "saveState" /\ last'.args = last.args)
          => mChanges' = mChanges]_vars

\* C36: ParentOf(index) returns the parent of every inner transaction pushed
\* (nil for the head), also after it was popped and when it lies on a sibling
\* branch of the current one.
C36_ParentOfEveryPushed ==
    \A i \in DOMAIN itxs : CallStacksParentOf(itxs[i].index) = itxs[i].parent

(***************************************************************************)
(* Specifications                                                          *)
(***************************************************************************)

\* NewCallTree, NewStateChanges, NewTracer
Init ==
    /\ calls = <<>>
    /\ root = Nil
    /\ current = Nil
    /\ count = 0
    /\ lookup = EmptyMap
    /\ keys = <<>>
    /\ roots = EmptyMap
    /\ index = EmptyMap
    /\ raw = EmptyMap
    /\ balances = [a \in Accounts |-> IF a = "a1" THEN 1 ELSE 255]
    /\ storage = EmptyMap
    /\ stack = <<>>
    /\ readOnly = FALSE
    /\ memory = <<>>
    /\ pc = 0
    /\ gas = StartGas
    /\ returnData = <<>>
    /\ logs = <<>>
    /\ suicided = {}
    /\ invoked = <<>>
    /\ abort = FALSE
    /\ NewMonitor
    /\ registered = {}
    /\ callOps = <<>>
    /\ journal = <<>>
    /\ last = [op |-> "new", args |-> <<>>, err |-> ""]

TreeAdd == count < MaxCalls /\ Len(callOps) < MaxCallOps /\ \E d \in CallData : Add(d)

TreeExit == Len(callOps) < MaxCallOps /\ \E e \in ExitArgs : Exit(e)

NextTree == TreeAdd \/ TreeExit

\* the call tree alone: SaveCall and ExitCall in any order
SpecTree == Init /\ [][NextTree]_vars

KeysSaveKey ==
    \E account \in {"a1"}, parent \in {NilSlot} \cup Slots, self \in Slots,
       offset \in Offsets, typeId \in TypeIds, parentTypeId \in TypeIds, label \in Labels :
        /\ SaveStateKey(account, parent, self, offset, typeId, parentTypeId, label)
        /\ Len(keys') <= MaxKeys

NextKeys == KeysSaveKey

\* the key forest: SaveStateKey with any arguments, in any order
SpecKeys == Init /\ [][NextKeys]_vars

JAdd == count < JMaxCalls /\ Len(callOps) < JMaxCallOps /\ Add("A")

JExit == Len(callOps) < JMaxCallOps /\ Exit([gas |-> 7, ret |-> <<1>>, err |-> ""])

JSaveKey ==
    SaveStateKey("a1", NilSlot, 1, NilOff, "T1", ZeroHash, "a")

JSaveChange ==
    /\ Len(journal) < MaxJournal
    /\ \E newVal \in Vals : SaveStateChange("a1", 1, NilOff, "T1", newVal)

JTransfer ==
    /\ Len(journal) < MaxJournal
    /\ \E from \in Accounts, to \in Accounts, amount \in Amounts :
          /\ amount <= balances[from]
          /\ TransferWithRecord(from, to, amount)

Next == JAdd \/ JExit \/ JSaveKey \/ JSaveChange \/ JTransfer

\* values journaled to one state variable, and transfers, across nested calls
Spec == Init /\ [][Next]_vars

VSaveKey ==
    \E parent \in {NilSlot, 1}, self \in Slots, label \in Labels :
        /\ SaveStateKey("a1", parent, self, NilOff, "T1", "T1", label)
        /\ Len(keys') <= VMaxKeys

VSaveChange ==
    /\ Len(journal) < VMaxJournal
    /\ \E slot \in Slots, newVal \in Vals : SaveStateChange("a1", slot, NilOff, "T1", newVal)

NextVars == VSaveKey \/ VSaveChange

\* state variables registered under several labels and parents, and journaled
\* by slot
SpecVars == Init /\ [][NextVars]_vars

OAdd == Len(callOps) < OMaxCallOps /\ Add("A")

OExit == Len(callOps) < OMaxCallOps /\ \E e \in ExitArgs : Exit(e)

OSaveKey ==
    \E parent \in {NilSlot, 1} : SaveStateKey("a1", parent, 1, NilOff, "T1", "T1", "a")

OSaveChange ==
    /\ Len(journal) < OMaxJournal
    /\ \E a \in {<<NilOff, "T1">>, <<NilOff, "T2">>, <<U256(0, 32), "T1">>} :
          SaveStateChange("a1", 1, a[1], a[2], <<7>>)

OSaveRaw == \E val \in Words : SaveRawStateChange("a1", 1, Bytes32(val))

OTransfer ==
    /\ Len(journal) < OMaxJournal
    /\ balances["a1"] >= 1
    /\ TransferWithRecord("a1", "a2", 1)

NextOps == OAdd \/ OExit \/ OSaveKey \/ OSaveChange \/ OSaveRaw \/ OTransfer

\* every tracer operation, inside calls that return or revert
SpecOps == Init /\ [][NextOps]_vars

\* a frame about to execute, writable or entered by a static call
InitEvm ==
    /\ calls = <<>>
    /\ root = Nil
    /\ current = Nil
    /\ count = 0
    /\ lookup = EmptyMap
    /\ keys = <<>>
    /\ roots = EmptyMap
    /\ index = EmptyMap
    /\ raw = EmptyMap
    /\ balances = [a \in Accounts |-> IF a = "a1" THEN 1 ELSE 255]
    /\ storage = EmptyMap
    /\ stack = <<>>
    /\ readOnly \in BOOLEAN
    /\ memory = <<>>
    /\ pc = 0
    /\ gas = StartGas
    /\ returnData = <<>>
    /\ logs = <<>>
    /\ suicided = {}
    /\ invoked = <<>>
    /\ abort = FALSE
    /\ NewMonitor
    /\ registered = {}
    /\ callOps = <<>>
    /\ journal = <<>>
    /\ last = [op |-> "new", args |-> <<>>, err |-> ""]

EAdd == count < EMaxCalls /\ Len(callOps) < EMaxCallOps /\ Add("A")

EExit == Len(callOps) < EMaxCallOps /\ Exit([gas |-> 7, ret |-> <<1>>, err |-> ""])

EPush == Len(stack) < EMaxStack /\ pc < EMaxPc /\ \E b \in Words : OpPush1(b)

ESstore == \E addr \in Accounts : OpSstore(addr)

ESaveRaw ==
    /\ SaveRawStateChange("a1", 1, Bytes32(1))
    /\ Cardinality(DOMAIN raw') <= EMaxRaw

NextEvm == EAdd \/ EExit \/ EPush \/ ESstore \/ ESaveRaw

\* storage writes by SSTORE inside calls, next to the tracer's raw log
SpecEvm == InitEvm /\ [][NextEvm]_vars

TAdd == Len(callOps) < TMaxCallOps /\ Add("A")

TExit == Len(callOps) < TMaxCallOps /\ Exit([gas |-> 7, ret |-> <<1>>, err |-> ""])

TTransfer ==
    /\ Len(journal) < 4 * TMaxTransfers
    /\ \E from \in Accounts, to \in Accounts, amount \in Amounts :
          /\ amount <= balances[from]
          /\ TransferWithRecord(from, to, amount)

NextTransfer == TAdd \/ TExit \/ TTransfer

\* transfers between two accounts, repeated inside and outside calls
SpecTransfer == Init /\ [][NextTransfer]_vars

\* a slot word holding a value of L bytes in place: the value from the most
\* significant byte on, 2 * L in the low byte
ShortWord(data, L) ==
    [i \in 1..32 |-> IF i <= Len(data) THEN data[i] ELSE IF i = 32 THEN 2 * L ELSE 0]

\* a storage word whose bytes all are b
DataWord(b) == [i \in 1..32 |-> b]

\* the words of slot 1: values in place of 0, 4, 2, 3 and 31 bytes, a low bit 0
\* with length 32, a low bit 1 with length 2, values out of place of 32 and of
\* 33 bytes, and a length that does not fit 64 bits
SlotWords ==
    { Bytes32(0),
      ShortWord(<<104, 97, 104, 97>>, 4),
      ShortWord(<<0, 97>>, 2),
      ShortWord(<<0, 0, 0>>, 3),
      ShortWord([i \in 1..31 |-> i], 31),
      ShortWord(<<>>, 32),
      Bytes32(5),
      Bytes32(65),
      Bytes32(67),
      [Bytes32(65) EXCEPT ![1] = 1] }

\* the storage of contract a1 with word in slot 1 and with data words at the
\* hash of the 32 bytes of the slot and at the hash of its trimmed bytes
StorageOf(word) ==
    [k \in {<<"a1", Bytes32(1)>>}
            \cup {<<"a1", Bytes32(Keccak256(Bytes32(1)) + i)>> : i \in 0..2}
            \cup {<<"a1", Bytes32(Keccak256(Bytes(1)) + i)>> : i \in 0..2} |->
        IF k[2] = Bytes32(1) THEN word
        ELSE IF \E i \in 0..2 : k[2] = Bytes32(Keccak256(Bytes32(1)) + i)
        THEN DataWord(10 + IntOf(k[2]) - Keccak256(Bytes32(1)))
        ELSE DataWord(20 + IntOf(k[2]) - Keccak256(Bytes(1)))]

\* a memory holding the name "a" behind its length, and one that ends after
\* the length
Memories == { Bytes32(1) \o <<97>> \o [i \in 1..31 |-> 0], Bytes32(1) }

\* the operands of VSSVAR above those of VJOURNAL, above a deeper word
ValueFrames ==
    { <<99, 70, ts, o, 1, 70, o, 1, 0>> :
        <<o, ts>> \in {<<0, 1>>, <<1, 1>>, <<0, 32>>, <<31, 32>>, <<32, 1>>, <<0, 33>>} }

\* the operands of RSSVAR above those of RJOURNAL, above a deeper word
ReferenceFrames == { <<99, 70, 1, 70, 1, 0>> }

\* the operands of RSSVAR above those of an indexed-key opcode with and without
\* an offset, above a deeper word
IndexFrames == { <<99, 70, 80, 0, 0, 32, 1, 70, 1, 0>>, <<99, 70, 80, 0, 32, 1, 70, 1, 0>> }

\* the frames the journal instructions start in
Scenarios ==
    [stack : ValueFrames, word : {ShortWord([i \in 1..31 |-> i], 31)}, memory : Memories]
        \cup [stack : ReferenceFrames, word : SlotWords, memory : Memories]
        \cup [stack : IndexFrames, word : {Bytes32(0)}, memory : Memories]

\* a frame of contract a1 about to execute journal instructions
InitJournal ==
    /\ calls = <<>>
    /\ root = Nil
    /\ current = Nil
    /\ count = 0
    /\ lookup = EmptyMap
    /\ keys = <<>>
    /\ roots = EmptyMap
    /\ index = EmptyMap
    /\ raw = EmptyMap
    /\ balances = [a \in Accounts |-> IF a = "a1" THEN 1 ELSE 255]
    /\ \E sc \in Scenarios :
          /\ storage = StorageOf(sc.word)
          /\ stack = sc.stack
          /\ memory = sc.memory
    /\ readOnly = FALSE
    /\ pc = 0
    /\ gas = StartGas
    /\ returnData = <<>>
    /\ logs = <<>>
    /\ suicided = {}
    /\ invoked = <<>>
    /\ abort = FALSE
    /\ NewMonitor
    /\ registered = {}
    /\ callOps = <<>>
    /\ journal = <<>>
    /\ last = [op |-> "new", args |-> <<>>, err |-> ""]

KAdd == count < KMaxCalls /\ Add("A")

KValueChange == OpValueChangeJournal("a1")

KReferenceChange == OpReferenceChangeJournal("a1")

KValueStateVar == OpValueStateVarJournal("a1")

KReferenceStateVar == OpReferenceStateVarJournal("a1")

KReferenceIndexValue == OpReferenceIndexValueStorageJournal("a1")

KValueIndexValue == OpValueIndexValueStorageJournal("a1")

KReferenceIndexReference == OpReferenceIndexReferenceStorageJournal("a1")

KValueIndexReference == OpValueIndexReferenceStorageJournal("a1")

NextJournal ==
    \/ KAdd
    \/ KValueChange
    \/ KReferenceChange
    \/ KValueStateVar
    \/ KReferenceStateVar
    \/ KReferenceIndexValue
    \/ KValueIndexValue
    \/ KReferenceIndexReference
    \/ KValueIndexReference

\* the journal instructions on the operands a frame holds
SpecJournal == InitJournal /\ [][NextJournal]_vars

\* what the EVM returns for a call: success without and with return data, a
\* revert with return data, and another failure
CallResults ==
    { [ret |-> <<>>, returnGas |-> 0, err |-> ""],
      [ret |-> <<5>>, returnGas |-> 3, err |-> ""],
      [ret |-> <<6>>, returnGas |-> 3, err |-> ErrExecutionReverted],
      [ret |-> <<>>, returnGas |-> 0, err |-> "out of gas"] }

\* what the EVM returns for a creation
CreateResults ==
    { [res |-> <<>>, addr |-> 3, returnGas |-> 3, suberr |-> ""],
      [res |-> <<6>>, addr |-> 0, returnGas |-> 3, suberr |-> ErrExecutionReverted],
      [res |-> <<>>, addr |-> 3, returnGas |-> 0, suberr |-> ErrCodeStoreOutOfGas],
      [res |-> <<>>, addr |-> 0, returnGas |-> 0, suberr |-> "out of gas"] }

\* the chain rules opCreate looks at
ChainRules == [IsEIP150 : BOOLEAN, IsHomestead : BOOLEAN]

\* the operands of CALL with and without value and those of DELEGATECALL,
\* above a deeper word
SystemFrames ==
    { <<99, 1, 0, 1, 0, 0, 2, 9>>, <<99, 1, 0, 1, 0, 1, 2, 9>>, <<99, 1, 0, 1, 0, 2, 9>> }

\* a frame of contract a1 about to execute system instructions, writable or
\* entered by a static call
InitSystem ==
    /\ calls = <<>>
    /\ root = Nil
    /\ current = Nil
    /\ count = 0
    /\ lookup = EmptyMap
    /\ keys = <<>>
    /\ roots = EmptyMap
    /\ index = EmptyMap
    /\ raw = EmptyMap
    /\ balances = [a \in Accounts |-> IF a = "a1" THEN 1 ELSE 255]
    /\ storage = EmptyMap
    /\ stack \in SystemFrames
    /\ readOnly \in BOOLEAN
    /\ memory = <<7, 7>>
    /\ pc = 0
    /\ gas = StartGas
    /\ returnData = <<>>
    /\ logs = <<>>
    /\ suicided = {}
    /\ invoked = <<>>
    /\ abort = FALSE
    /\ NewMonitor
    /\ registered = {}
    /\ callOps = <<>>
    /\ journal = <<>>
    /\ last = [op |-> "new", args |-> <<>>, err |-> ""]

SSstore == OpSstore("a1")

SLog == \E size \in 0..4 : OpLog("a1", size)

SSelfdestruct == OpSelfdestruct("a1")

SCreate == \E rules \in ChainRules, r \in CreateResults : OpCreate("a1", rules, r)

SCreate2 == \E r \in CreateResults : OpCreate2("a1", r)

SCall == \E r \in CallResults : OpCall("a1", r)

SCallCode == \E r \in CallResults : OpCallCode("a1", r)

SDelegateCall == \E r \in CallResults : OpDelegateCall("a1", r)

SStaticCall == \E r \in CallResults : OpStaticCall("a1", r)

NextSystem ==
    \/ SSstore
    \/ SLog
    \/ SSelfdestruct
    \/ SCreate
    \/ SCreate2
    \/ SCall
    \/ SCallCode
    \/ SDelegateCall
    \/ SStaticCall

\* the system instructions on the operands a frame holds
SpecSystem == InitSystem /\ [][NextSystem]_vars

\* the words a frame of the jump specification holds: targets and conditions
JumpWords == {0, 2, 3, 5}

InitJump ==
    /\ calls = <<>>
    /\ root = Nil
    /\ current = Nil
    /\ count = 0
    /\ lookup = EmptyMap
    /\ keys = <<>>
    /\ roots = EmptyMap
    /\ index = EmptyMap
    /\ raw = EmptyMap
    /\ balances = [a \in Accounts |-> 0]
    /\ storage = EmptyMap
    /\ stack \in [1..PMaxStack -> JumpWords]
    /\ readOnly = FALSE
    /\ memory = <<>>
    /\ pc = 4
    /\ gas = StartGas
    /\ returnData = <<>>
    /\ logs = <<>>
    /\ suicided = {}
    /\ invoked = <<>>
    /\ abort = FALSE
    /\ NewMonitor
    /\ registered = {}
    /\ callOps = <<>>
    /\ journal = <<>>
    /\ last = [op |-> "new", args |-> <<>>, err |-> ""]

PJump == OpJump

PJumpi == OpJumpi

PCancel == Cancel

NextJump ==
    \/ PJump
    \/ PJumpi
    \/ PCancel

\* the jump instructions on the operands a frame holds, with cancellation
SpecJump == InitJump /\ [][NextJump]_vars

\* the State values handed to SaveState in the monitor specification
MonitorStates ==
    [Account : {"a2", ZeroAddress}, InnerTxIndex : {0, 1}, Value : Vals]

\* the number of states the monitor holds
SavedStates ==
    Cardinality(UNION {{<<k, i>> : i \in DOMAIN mChanges[k]} : k \in DOMAIN mChanges})

MSaveState ==
    /\ SavedStates < MMaxStates
    /\ \E stateVarName \in Labels, slot \in {NilSlot, 1}, newState \in MonitorStates :
          MonitorSaveState("a1", stateVarName, slot, "", newState)

MPush == Len(itxs) < MMaxItxs /\ CallStacksPush

MPop == CallStacksPop

NextMonitor ==
    \/ MSaveState
    \/ MPush
    \/ MPop

\* the monitor: states saved for two variables, inner transactions pushed and
\* popped
SpecMonitor == Init /\ [][NextMonitor]_vars

====
